---- MODULE Spec2Model ----
(***************************************************************************)
(* Smash-speed calculator (badminton-smash-calculator).                    *)
(*                                                                         *)
(* The calculator screen of src/app.js: the DOMContentLoaded handler with  *)
(* its missing-element check, the Calculate / Reset / Enter handlers, and  *)
(* the speed formula calculateV0, in the two forms the file holds (with a  *)
(* drag-constant field, and with the constant fixed).  The calibration /   *)
(* marking screen of src/unnamed/part_001: its mode, calibration, marks    *)
(* and compute(), the linear-with-skew model.  The angle tool, in the     *)
(* free form of src/unnamed/part_000, the horizontal-baseline form of      *)
(* src/unnamed/part_001 and the form of src/app.js that places the free    *)
(* end by the angle, with the freeze of the video under the rig.  The      *)
(* video analysis of src/app.js with its two time markers, its object      *)
(* URLs and the frame steps of the arrow keys.  A behaviour is about one   *)
(* screen; the screens share no state but the input fields a transfer      *)
(* writes.                                                                 *)
(*                                                                         *)
(* JavaScript numbers are modelled as decimal floating-point values with   *)
(* seven significant digits, the IEEE special values NaN and +-Infinity,   *)
(* overflow above Number.MAX_VALUE and underflow to zero.  Math.exp and    *)
(* Math.cos are library code: they are tabulated, with the values an IEEE  *)
(* double evaluation gives, on the arguments the input fields produce;     *)
(* Math.acos and Math.atan2 likewise, in degrees, on the directions the    *)
(* handles of the angle tool can take.                                     *)
(***************************************************************************)
EXTENDS Integers, Sequences, FiniteSets, TLC

(***************************************************************************)
(* Numbers                                                                 *)
(***************************************************************************)

\* A finite number is s * m * 10^e with m = 0 or 10^6 <= m < 10^7.
MantLo == 1000 * 1000
MantHi == 10 * MantLo

NaN == [k |-> "nan", s |-> 1, m |-> 0, e |-> 0]
Inf(sg) == [k |-> "inf", s |-> sg, m |-> 0, e |-> 0]
Zero == [k |-> "fin", s |-> 1, m |-> 0, e |-> 0]

\* Number.MAX_VALUE = 1.797693e308 and the smallest subnormal 4.9e-324.
Overflows(m, e) == e + 6 > 308 \/ (e + 6 = 308 /\ m > 1797693)
Underflows(m, e) == e + 6 < 0 - 324

\* The number sg * m * 10^e, normalised.
RECURSIVE Norm(_, _, _)
Norm(sg, m, e) ==
  IF m = 0 THEN Zero
  ELSE IF m >= MantHi THEN Norm(sg, m \div 10, e + 1)
  ELSE IF m < MantLo THEN Norm(sg, m * 10, e - 1)
  ELSE IF Overflows(m, e) THEN Inf(sg)
  ELSE IF Underflows(m, e) THEN Zero
  ELSE [k |-> "fin", s |-> sg, m |-> m, e |-> e]

\* The decimal literal sg * m * 10^e.
Dec(sg, m, e) == Norm(sg, m, e)

IsNaN(a) == a.k = "nan"
IsInf(a) == a.k = "inf"
IsFinite(a) == a.k = "fin"
IsZero(a) == a.k = "fin" /\ a.m = 0

Neg(a) == IF IsNaN(a) \/ IsZero(a) THEN a ELSE [a EXCEPT !.s = 0 - a.s]
Abs(a) == IF IsNaN(a) THEN a ELSE [a EXCEPT !.s = 1]

\* The high digits of the 14-digit product of two 7-digit mantissas.
MulMant(x, y) ==
  LET xh == x \div 1000
      xl == x % 1000
      yh == y \div 1000
      yl == y % 1000
  IN  xh * yh + ((xh * yl + xl * yh + ((xl * yl) \div 1000)) \div 1000)

Mul(a, b) ==
  IF IsNaN(a) \/ IsNaN(b) THEN NaN
  ELSE IF IsInf(a) \/ IsInf(b)
    THEN IF IsZero(a) \/ IsZero(b) THEN NaN ELSE Inf(a.s * b.s)
  ELSE IF IsZero(a) \/ IsZero(b) THEN Zero
  ELSE Norm(a.s * b.s, MulMant(a.m, b.m), a.e + b.e + 6)

\* floor(r * 10^(n-1) / d) by long division, one digit per step.
RECURSIVE LongDiv(_, _, _, _)
LongDiv(r, d, n, q) ==
  IF n = 0 THEN q
  ELSE LongDiv((r % d) * 10, d, n - 1, q * 10 + (r \div d))

Div(a, b) ==
  IF IsNaN(a) \/ IsNaN(b) THEN NaN
  ELSE IF IsInf(a) THEN (IF IsInf(b) THEN NaN ELSE Inf(a.s * b.s))
  ELSE IF IsInf(b) THEN Zero
  ELSE IF IsZero(b) THEN (IF IsZero(a) THEN NaN ELSE Inf(a.s * b.s))
  ELSE IF IsZero(a) THEN Zero
  ELSE Norm(a.s * b.s, LongDiv(a.m, b.m, 8, 0), a.e - b.e - 7)

RECURSIVE Pow10(_)
Pow10(n) == IF n = 0 THEN 1 ELSE 10 * Pow10(n - 1)

\* a + b for finite a, b with a.e >= b.e: the smaller operand is shifted down.
AddAligned(a, b) ==
  LET sh == a.e - b.e
      bm == IF sh > 7 THEN 0 ELSE b.m \div Pow10(sh)
      sum == a.s * a.m + b.s * bm
  IN  IF sum >= 0 THEN Norm(1, sum, a.e) ELSE Norm(0 - 1, 0 - sum, a.e)

Add(a, b) ==
  IF IsNaN(a) \/ IsNaN(b) THEN NaN
  ELSE IF IsInf(a) THEN (IF IsInf(b) /\ a.s # b.s THEN NaN ELSE a)
  ELSE IF IsInf(b) THEN b
  ELSE IF IsZero(a) THEN b
  ELSE IF IsZero(b) THEN a
  ELSE IF a.e >= b.e THEN AddAligned(a, b) ELSE AddAligned(b, a)

Sub(a, b) == Add(a, Neg(b))

\* a < b, false when either side is NaN.
Lt(a, b) ==
  IF IsNaN(a) \/ IsNaN(b) THEN FALSE
  ELSE IF IsInf(a) THEN a.s < 0 /\ ~(IsInf(b) /\ b.s < 0)
  ELSE IF IsInf(b) THEN b.s > 0
  ELSE IF a.s # b.s THEN a.s < b.s /\ ~(IsZero(a) /\ IsZero(b))
  ELSE IF IsZero(a) THEN ~IsZero(b)
  ELSE IF IsZero(b) THEN FALSE
  ELSE IF a.s > 0 THEN a.e < b.e \/ (a.e = b.e /\ a.m < b.m)
  ELSE b.e < a.e \/ (a.e = b.e /\ b.m < a.m)

NumEq(a, b) == ~IsNaN(a) /\ ~IsNaN(b) /\ a = b
Leq(a, b) == Lt(a, b) \/ NumEq(a, b)

One == Dec(1, 1, 0)


(***************************************************************************)
(* Library functions of the JavaScript runtime                             *)
(***************************************************************************)

\* Math.PI
Pi == Dec(1, 3141593, 0 - 6)

\* (n || 0): NaN and 0 are falsy.
OrZero(n) == IF IsNaN(n) \/ IsZero(n) THEN Zero ELSE n

\* deg * Math.PI / 180
HalfTurn == Dec(1, 180, 0)
RadOf(deg) == Div(Mul(deg, Pi), HalfTurn)

\* Math.exp.  Above ln(Number.MAX_VALUE) = 709.78 the result is Infinity,
\* below -745.13 it is 0, and within 1e-17 of 0 it is exactly 1.  In between
\* it is tabulated on the products kx * x of the field values.
ExpMax == Dec(1, 7097827, 0 - 4)
ExpMin == Dec(0 - 1, 7451332, 0 - 4)
ExpTiny == Dec(1, 1, 0 - 17)
ExpTable ==
  (Dec(1, 25, 0 - 2) :> Dec(1, 1284025, 0 - 6))
  @@ (Dec(1, 5, 0 - 1) :> Dec(1, 1648721, 0 - 6))
  @@ (Dec(1, 19, 0 - 1) :> Dec(1, 6685894, 0 - 6))
  @@ (Dec(1, 2, 0) :> Dec(1, 7389056, 0 - 6))
  @@ (Dec(1, 7075, 0 - 1) :> Dec(1, 1833775, 301))

MathExp(a) ==
  IF IsNaN(a) THEN NaN
  ELSE IF Lt(ExpMax, a) THEN Inf(1)
  ELSE IF Lt(a, ExpMin) THEN Zero
  ELSE IF Lt(Abs(a), ExpTiny) THEN One
  ELSE ExpTable[a]

\* Math.cos, tabulated on the radian values of the angles the fields hold.
CosTable ==
  (Zero :> One)
  @@ (RadOf(Dec(1, 5, 0)) :> Dec(1, 9961947, 0 - 7))
  @@ (RadOf(Dec(1, 8, 0)) :> Dec(1, 9902681, 0 - 7))
  @@ (RadOf(Dec(1, 90, 0)) :> Dec(1, 6123234, 0 - 23))

MathCos(r) == IF ~IsFinite(r) THEN NaN ELSE CosTable[r]

\* Number(text) of an input field's text.
NumberTable ==
  [text \in {"", "abc", "0", "0.05", "0.2", "0.5", "1", "2", "5", "8", "9.5",
             "10", "90", "14150", "20000"} |->
     CASE text = "" -> Zero
       [] text = "abc" -> NaN
       [] text = "0" -> Zero
       [] text = "0.05" -> Dec(1, 5, 0 - 2)
       [] text = "0.2" -> Dec(1, 2, 0 - 1)
       [] text = "0.5" -> Dec(1, 5, 0 - 1)
       [] text = "1" -> One
       [] text = "2" -> Dec(1, 2, 0)
       [] text = "5" -> Dec(1, 5, 0)
       [] text = "8" -> Dec(1, 8, 0)
       [] text = "9.5" -> Dec(1, 95, 0 - 1)
       [] text = "10" -> Dec(1, 10, 0)
       [] text = "90" -> Dec(1, 90, 0)
       [] text = "14150" -> Dec(1, 14150, 0)
       [] text = "20000" -> Dec(1, 20000, 0)]

NumberOf(text) == NumberTable[text]

\* Number.prototype.toFixed(dp): the value rounded to dp decimals.
ToFixed(n, dp) ==
  LET drop == 0 - dp - n.e
  IN  IF n.m = 0 THEN [txt |-> "num", s |-> 1, m |-> 0, e |-> 0 - dp]
      ELSE IF drop <= 0 THEN [txt |-> "num", s |-> n.s, m |-> n.m, e |-> n.e]
      ELSE IF drop > 7 THEN [txt |-> "num", s |-> n.s, m |-> 0, e |-> 0 - dp]
      ELSE [txt |-> "num", s |-> n.s,
            m |-> (n.m + 5 * Pow10(drop - 1)) \div Pow10(drop), e |-> 0 - dp]


(***************************************************************************)
(* The calculator screen                                                   *)
(***************************************************************************)

VARIABLES
  screen,      \* "calculator", "marking", "angle" or "video": what the
               \* behaviour is about
  variant,     \* "kxInput": the screen with a drag-constant field;
               \* "fixedKx": the screen that always uses defaultKx
  missing,     \* the required elements the page does not contain
  loaded,      \* DOMContentLoaded has been handled
  handlers,    \* the Calculate / Reset / Enter listeners are registered
  fields,      \* text of inputDistance, inputTime, inputAngle, inputKx
  errHidden,   \* the error box carries the class "hidden"
  errText,     \* textContent of the error box
  resHidden,   \* the result card carries the class "hidden"
  out,         \* text of outMps, outKmh, outMph, outNotes
  speeds,      \* v0, v_kmh, v_mph of the latest successful Calculate
  alerts,      \* number of alert() dialogs shown
  called,      \* the latest Calculate attempt evaluated calculateV0
  lastEv       \* the latest event handled

\* The calibration / marking screen.
VARIABLES
  video,        \* "empty", "loading" (src set, no metadata yet) or "ready"
  currentTime,  \* video.currentTime
  mode,         \* 'idle', 'calib1', 'calib2', 'markA' or 'markB'
  calib,        \* p1, p2, metersPerPixel, pxDist
  A,            \* the mark A: nx, ny, t
  B,            \* the mark B
  knownMeters,  \* text of the known-distance field
  skewDeg,      \* text of the skew-angle field
  status,       \* text of the status line
  calibReadout, \* content of the calibration readout
  abReadout,    \* content of the A/B readout
  results,      \* content of the results area
  info          \* what the latest compute() returned

\* The angle tool.
VARIABLES
  tool,          \* "free", "reflect" or "polar": the form of the tool
  baseLineStart, \* point A of the rig
  baseLineEnd,   \* point B, the vertex
  angleLineEnd,  \* point C, the free end
  dragging,      \* 'baseStart', 'baseEnd', 'angleEnd' or "none" for null
  currentAngle,  \* the angle the latest draw() calculated
  isFlipped,     \* the flag of the flip handler
  inputAngle,    \* text of the calculator's angle field, as the tool sees it
  angleVideo     \* the video under the rig: frozenFrame, the player, the
                 \* pending capture timers and the buttons of the freeze

angleVars == <<tool, baseLineStart, baseLineEnd, angleLineEnd, dragging,
               currentAngle, isFlipped, inputAngle, angleVideo>>

\* The video analysis.
VARIABLES
  playerSrc,     \* the file videoPlayer.src refers to, "none" without one
  playerReady,   \* the player has the metadata of that file
  playerPaused,  \* videoPlayer.paused
  playerTime,    \* videoPlayer.currentTime
  startTime,     \* the start marker, Null for null
  endTime,       \* the end marker
  startSlider,   \* value of the start slider
  endSlider,     \* value of the end slider
  videoDuration, \* the variable videoDuration of the slider form
  panel,         \* what the video panel shows
  inputTime,     \* text of the calculator's time field, as the panel sees it
  objectUrls     \* number of object URLs created and not revoked

videoVars == <<playerSrc, playerReady, playerPaused, playerTime, startTime,
               endTime, startSlider, endSlider, videoDuration, panel,
               inputTime, objectUrls>>

markVars == <<video, currentTime, mode, calib, A, B, knownMeters, skewDeg,
              status, calibReadout, abReadout, results, info>>

calcVars == <<variant, missing, loaded, handlers, fields, errHidden, errText,
              resHidden, out, speeds, alerts, called, lastEv>>

\* The two screens.
Variants == {"kxInput", "fixedKx"}

\* defaultKx of the two screens.
DefaultKxText(v) == IF v = "kxInput" THEN "0.05" ELSE "0.2"
defaultKx(v) == NumberOf(DefaultKxText(v))

\* fmt(n, dp)
Dash == [txt |-> "dash", s |-> 1, m |-> 0, e |-> 0]
NoText == [txt |-> "none", s |-> 1, m |-> 0, e |-> 0]
fmt(n, dp) == IF ~IsFinite(n) THEN Dash ELSE ToFixed(n, dp)

\* The elements the missing-element check looks up.
Required(v) ==
  {"distance", "time", "angle", "btnCalc", "btnClear", "outMps", "outKmh",
   "outMph", "outNotes", "resultCard", "errorBox"}
  \cup (IF v = "kxInput" THEN {"kx", "varSelect", "varExplain"} ELSE {})

\* Messages.
NoMsg == [msg |-> "", els |-> {}]
Msg(text) == [msg |-> text, els |-> {}]
MsgMissing(els) == [msg |-> "MISSING DOM ELEMENTS", els |-> els]
MsgFatal == Msg("Fatal initialization error - check console.")
MsgInvalid == Msg("Please enter valid numeric values for all fields.")
MsgTime == Msg("Time must be > 0 seconds.")
MsgKx == Msg("kx must be non-zero for this formula.")
MsgNonFinite == Msg("Non-finite intermediate result; check inputs.")
MsgDenominator == Msg("Denominator too small (near zero). Check t and theta.")

\* The threshold 1e-12 of calculateV0.
DenominatorMin == Dec(1, 1, 0 - 12)

\* calculateV0 without its near-zero denominator check.
v0Result_NoThreshold(numerator, denominator, cosTheta, thetaRad) ==
  IF ~IsFinite(numerator) \/ ~IsFinite(denominator)
    THEN [error |-> MsgNonFinite, v0 |-> NaN, numerator |-> numerator,
          denominator |-> denominator, cosTheta |-> cosTheta, thetaRad |-> thetaRad]
  ELSE [error |-> NoMsg, v0 |-> Div(numerator, denominator), numerator |-> numerator,
        denominator |-> denominator, cosTheta |-> cosTheta, thetaRad |-> thetaRad]

\* calculateV0 multiplying by the denominator instead of dividing.
v0Result_Product(numerator, denominator, cosTheta, thetaRad) ==
  IF ~IsFinite(numerator) \/ ~IsFinite(denominator)
    THEN [error |-> MsgNonFinite, v0 |-> NaN, numerator |-> numerator,
          denominator |-> denominator, cosTheta |-> cosTheta, thetaRad |-> thetaRad]
  ELSE IF Lt(Abs(denominator), DenominatorMin)
    THEN [error |-> MsgDenominator, v0 |-> NaN, numerator |-> numerator,
          denominator |-> denominator, cosTheta |-> cosTheta, thetaRad |-> thetaRad]
  ELSE [error |-> NoMsg, v0 |-> Mul(numerator, denominator), numerator |-> numerator,
        denominator |-> denominator, cosTheta |-> cosTheta, thetaRad |-> thetaRad]

\* The return statement of calculateV0, from the intermediate values.
v0Result(numerator, denominator, cosTheta, thetaRad) ==
  IF ~IsFinite(numerator) \/ ~IsFinite(denominator)
    THEN [error |-> MsgNonFinite, v0 |-> NaN, numerator |-> numerator,
          denominator |-> denominator, cosTheta |-> cosTheta, thetaRad |-> thetaRad]
  ELSE IF Lt(Abs(denominator), DenominatorMin)
    THEN [error |-> MsgDenominator, v0 |-> NaN, numerator |-> numerator,
          denominator |-> denominator, cosTheta |-> cosTheta, thetaRad |-> thetaRad]
  ELSE [error |-> NoMsg, v0 |-> Div(numerator, denominator), numerator |-> numerator,
        denominator |-> denominator, cosTheta |-> cosTheta, thetaRad |-> thetaRad]

\* calculateV0 once thetaRad and cosTheta are known.
v0OfCos(x, t, kx, thetaRad, cosTheta) ==
  v0Result(Sub(MathExp(Mul(kx, x)), One), Mul(Mul(kx, t), cosTheta),
           cosTheta, thetaRad)

\* calculateV0 once thetaRad is known.
v0OfRad(x, t, kx, thetaRad) == v0OfCos(x, t, kx, thetaRad, MathCos(thetaRad))

calculateV0(x, t, thetaDegrees, kx) ==
  v0OfRad(x, t, kx, RadOf(OrZero(thetaDegrees)))

\* The input checks with t < 0 in place of t <= 0.
checkInputs_TimeBelowZero(v, x, t, theta, kx) ==
  IF ~(IsFinite(x) /\ IsFinite(t) /\ IsFinite(theta)
       /\ (v = "kxInput" => IsFinite(kx)))
    THEN MsgInvalid
  ELSE IF Lt(t, Zero) THEN MsgTime
  ELSE IF v = "kxInput" /\ NumEq(kx, Zero) THEN MsgKx
  ELSE NoMsg

\* The input checks without the check of kx.
checkInputs_NoKxCheck(v, x, t, theta, kx) ==
  IF ~(IsFinite(x) /\ IsFinite(t) /\ IsFinite(theta)
       /\ (v = "kxInput" => IsFinite(kx)))
    THEN MsgInvalid
  ELSE IF Leq(t, Zero) THEN MsgTime
  ELSE NoMsg

\* The input checks with the check of t ahead of the finiteness check.
checkInputs_TimeFirst(v, x, t, theta, kx) ==
  IF Leq(t, Zero) THEN MsgTime
  ELSE IF ~(IsFinite(x) /\ IsFinite(t) /\ IsFinite(theta)
            /\ (v = "kxInput" => IsFinite(kx)))
    THEN MsgInvalid
  ELSE IF v = "kxInput" /\ NumEq(kx, Zero) THEN MsgKx
  ELSE NoMsg

\* The input checks of the Calculate handler: the message of the first check
\* that fails, NoMsg when all pass.
checkInputs(v, x, t, theta, kx) ==
  IF ~(IsFinite(x) /\ IsFinite(t) /\ IsFinite(theta)
       /\ (v = "kxInput" => IsFinite(kx)))
    THEN MsgInvalid
  ELSE IF Leq(t, Zero) THEN MsgTime
  ELSE IF v = "kxInput" /\ NumEq(kx, Zero) THEN MsgKx
  ELSE NoMsg

\* The unit conversions of the Calculate handler.
KmhFactor == Dec(1, 36, 0 - 1)
MphFactor == Dec(1, 2236936, 0 - 6)
toMph(v0) == Mul(v0, MphFactor)
\* The km/h conversion with the mph factor.
toKmh_MphFactor(v0) == Mul(v0, MphFactor)
toKmh(v0) == Mul(v0, KmhFactor)

\* v0 with its conversions v_kmh and v_mph.
NoSpeeds == [v0 |-> NaN, v_kmh |-> NaN, v_mph |-> NaN, set |-> FALSE]
speedsOf(v0) ==
  [v0 |-> v0, v_kmh |-> toKmh(v0), v_mph |-> toMph(v0), set |-> TRUE]

\* The output texts of the page as served, and the texts written on success.
NoOut == [mps |-> NoText, kmh |-> NoText, mph |-> NoText,
          notesNum |-> NoText, notesCos |-> NoText]
outputs(sp, r) ==
  [mps |-> fmt(sp.v0, 3), kmh |-> fmt(sp.v_kmh, 2), mph |-> fmt(sp.v_mph, 2),
   notesNum |-> fmt(r.numerator, 4), notesCos |-> fmt(r.cosTheta, 4)]


\* The error box and the result card, as the helpers of the screen see them.
View == [errHidden |-> errHidden, errText |-> errText, resHidden |-> resHidden]

showError(vw, msg) == [vw EXCEPT !.errText = msg, !.errHidden = FALSE]
\* hideError that leaves the error box as it is.
hideError_Keep(vw) == vw
hideError(vw) == [vw EXCEPT !.errText = NoMsg, !.errHidden = TRUE]
showResults(vw) == [vw EXCEPT !.resHidden = FALSE]
\* hideResults that leaves the result card as it is.
hideResults_Keep(vw) == vw
hideResults(vw) == [vw EXCEPT !.resHidden = TRUE]

\* The values the Reset handler writes into the fields.
ResetFields(v) ==
  IF v = "kxInput"
    THEN [distance |-> "5", time |-> "0.2", angle |-> "5", kx |-> "0.05"]
    ELSE [distance |-> "9.5", time |-> "0.5", angle |-> "8", kx |-> ""]

\* The page as served: the fields hold their seed values, the drag-constant
\* field is empty, the error box and the result card are hidden.
MarkupFields(v) == [ResetFields(v) EXCEPT !.kx = ""]
MarkupHidden == TRUE

\* Texts a user types into the fields.
DistanceInputs == {"abc", "10", "14150", "20000"}
TimeInputs == {"abc", "0", "1", "2"}
AngleInputs == {"abc", "0", "90"}
KxInputs == {"abc", "0", "0.05"}
InputsOf(f) ==
  CASE f = "distance" -> DistanceInputs
    [] f = "time" -> TimeInputs
    [] f = "angle" -> AngleInputs
    [] f = "kx" -> KxInputs

\* The input fields of a screen (those with an Enter-key listener).
FieldsOf(v) ==
  IF v = "kxInput" THEN {"distance", "time", "angle", "kx"}
  ELSE {"distance", "time", "angle"}

\* Pages with some required elements missing.
MissingChoices(v) ==
  {{}, {"btnClear"}, {"errorBox"}, {"resultCard", "outMps"}}

\* What the page holds of the video-analysis elements: none of them, the
\* player without its buttons, or all of them.
VideoMarkups == {"none", "partial", "full"}

\* The calculator screen before DOMContentLoaded.
CalcInit ==
  /\ variant \in Variants
  /\ missing \in MissingChoices(variant)
  /\ loaded = FALSE
  /\ handlers = FALSE
  /\ fields = MarkupFields(variant)
  /\ errHidden = MarkupHidden
  /\ errText = NoMsg
  /\ resHidden = MarkupHidden
  /\ out = NoOut
  /\ speeds = NoSpeeds
  /\ alerts = 0
  /\ called = FALSE
  /\ lastEv = "none"

\* A missing-element check that lets initialisation go on regardless.
goesOn_Always(els) == TRUE

\* The missing-element check: initialisation goes on only with none missing.
goesOn(els) == els = {}

\* initVideoAnalysis throws when the page holds the video player without its
\* buttons: addEventListener is called on null.
videoInitThrows(els) == els = "partial"

\* DOMContentLoaded
Load(videoEls) ==
  /\ screen = "calculator"
  /\ ~loaded
  /\ loaded' = TRUE
  /\ lastEv' = "load"
  /\ IF ~goesOn(missing)
       THEN /\ IF "errorBox" \notin missing
                 THEN /\ errHidden' = FALSE
                      /\ errText' = MsgMissing(missing)
                      /\ alerts' = alerts
                 ELSE /\ alerts' = alerts + 1
                      /\ UNCHANGED <<errHidden, errText>>
            /\ UNCHANGED <<handlers, fields, resHidden>>
       ELSE LET v1 == hideError(hideResults(View))
                v2 == IF videoInitThrows(videoEls)
                        THEN [v1 EXCEPT !.errHidden = FALSE, !.errText = MsgFatal]
                        ELSE v1
            IN  /\ fields' = IF variant = "kxInput" /\ fields.kx = ""
                               THEN [fields EXCEPT !.kx = DefaultKxText(variant)]
                               ELSE fields
                /\ handlers' = TRUE
                /\ errHidden' = v2.errHidden
                /\ errText' = v2.errText
                /\ resHidden' = v2.resHidden
                /\ alerts' = alerts
  /\ UNCHANGED <<variant, missing, out, speeds, called>>
  /\ UNCHANGED <<screen, markVars, angleVars, videoVars>>

\* The user edits a field.
Type(f, text) ==
  /\ screen = "calculator"
  /\ loaded
  /\ f \in FieldsOf(variant)
  /\ f \notin missing
  /\ text # fields[f]
  /\ fields' = [fields EXCEPT ![f] = text]
  /\ lastEv' = "type"
  /\ UNCHANGED <<variant, missing, loaded, handlers, errHidden, errText,
                 resHidden, out, speeds, alerts, called>>
  /\ UNCHANGED <<screen, markVars, angleVars, videoVars>>

\* What the Calculate handler computes from the texts fs of the fields: the
\* message of the check that rejects them, whether calculateV0 is evaluated,
\* and the texts written on success.
handled(chk, r) ==
  IF chk # NoMsg
    THEN [error |-> chk, called |-> FALSE, speeds |-> NoSpeeds, out |-> NoOut]
  ELSE IF r.error # NoMsg
    THEN [error |-> r.error, called |-> TRUE, speeds |-> NoSpeeds, out |-> NoOut]
  ELSE [error |-> NoMsg, called |-> TRUE, speeds |-> speedsOf(r.v0),
        out |-> outputs(speedsOf(r.v0), r)]

outcomeOf(v, x, t, theta, kx) ==
  handled(checkInputs(v, x, t, theta, kx), calculateV0(x, t, theta, kx))

outcome(v, fs) ==
  outcomeOf(v, NumberOf(fs.distance), NumberOf(fs.time), NumberOf(fs.angle),
            IF v = "kxInput" THEN NumberOf(fs.kx) ELSE defaultKx(v))

\* outcome, evaluated once for every content of the fields.
TextsOf(v, f) == InputsOf(f) \cup {ResetFields(v)[f], MarkupFields(v)[f]}
FieldStates(v) ==
  [distance : TextsOf(v, "distance"), time : TextsOf(v, "time"),
   angle : TextsOf(v, "angle"),
   kx : IF v = "kxInput" THEN TextsOf(v, "kx") ELSE {""}]
Outcomes == [v \in Variants |-> [fs \in FieldStates(v) |-> outcome(v, fs)]]

\* The body of the Calculate handler: the view and the texts it leaves, and
\* whether it evaluated calculateV0.
attempt(vw, o, texts, sp) ==
  IF o.error # NoMsg
    THEN [view |-> hideResults(showError(vw, o.error)), called |-> o.called,
          out |-> texts, speeds |-> sp]
  ELSE [view |-> showResults(vw), called |-> o.called, out |-> o.out,
        speeds |-> o.speeds]

calcAttempt == attempt(hideError(View), Outcomes[variant][fields], out, speeds)

\* The Calculate handler leaves what its body computed.
Leave(a) ==
  /\ errHidden' = a.view.errHidden
  /\ errText' = a.view.errText
  /\ resHidden' = a.view.resHidden
  /\ out' = a.out
  /\ speeds' = a.speeds
  /\ called' = a.called
  /\ lastEv' = "calc"

RunCalc == Leave(calcAttempt)

\* An event on an element that has no listener.
NoListener ==
  /\ lastEv' = "ignored"
  /\ UNCHANGED <<errHidden, errText, resHidden, out, speeds, called>>

\* A click on the Calculate button.
BtnCalcClick ==
  /\ screen = "calculator"
  /\ loaded
  /\ "btnCalc" \notin missing
  /\ IF handlers THEN RunCalc ELSE NoListener
  /\ UNCHANGED <<variant, missing, loaded, handlers, fields, alerts>>
  /\ UNCHANGED <<screen, markVars, angleVars, videoVars>>

\* The Enter key in an input field: the listener clicks the Calculate button.
EnterKey ==
  /\ screen = "calculator"
  /\ loaded
  /\ \E f \in FieldsOf(variant) : f \notin missing
  /\ IF handlers THEN RunCalc ELSE NoListener
  /\ UNCHANGED <<variant, missing, loaded, handlers, fields, alerts>>
  /\ UNCHANGED <<screen, markVars, angleVars, videoVars>>

\* A click on the Reset button.
BtnClearClick ==
  /\ screen = "calculator"
  /\ loaded
  /\ "btnClear" \notin missing
  /\ IF handlers
       THEN LET v1 == hideResults(hideError(View))
            IN  /\ fields' = ResetFields(variant)
                /\ errHidden' = v1.errHidden
                /\ errText' = v1.errText
                /\ resHidden' = v1.resHidden
                /\ lastEv' = "clear"
                /\ UNCHANGED <<out, speeds, called>>
       ELSE NoListener /\ UNCHANGED fields
  /\ UNCHANGED <<variant, missing, loaded, handlers, alerts>>
  /\ UNCHANGED <<screen, markVars, angleVars, videoVars>>


(***************************************************************************)
(* The calibration / marking screen (linear-with-skew model)               *)
(***************************************************************************)

\* null
Null == [null |-> TRUE]

\* A value that is neither null, NaN nor 0.
Truthy(n) == n # Null /\ ~IsNaN(n) /\ ~IsZero(n)

\* (n || 1)
OrOne(n) == IF IsNaN(n) \/ IsZero(n) THEN One ELSE n

\* toRad(deg) of a field's text.
toRad(text) == RadOf(OrZero(NumberOf(text)))

\* Math.min(Math.max(n, 0), 1)
Clamp01(n) == IF Lt(n, Zero) THEN Zero ELSE IF Lt(One, n) THEN One ELSE n

\* The position of the event, not brought into the rectangle.
normFromEvent_Raw(ev) == [nx |-> ev.x, ny |-> ev.y]

\* normFromEvent(ev), ev given relative to the overlay's rectangle.
normFromEvent(ev) == [nx |-> Clamp01(ev.x), ny |-> Clamp01(ev.y)]

\* The intrinsic size of the video: 0 x 0 until its metadata is loaded.
VideoSize == [w |-> Dec(1, 800, 0), h |-> Dec(1, 600, 0)]
videoWidth == IF video = "ready" THEN VideoSize.w ELSE Zero
videoHeight == IF video = "ready" THEN VideoSize.h ELSE Zero

\* Math.hypot: exact when one side is 0, tabulated otherwise.
HypotTable == <<Dec(1, 800, 0), Dec(1, 600, 0)>> :> Dec(1, 1000, 0)
MathHypot(dx, dy) ==
  IF IsZero(dy) THEN Abs(dx)
  ELSE IF IsZero(dx) THEN Abs(dy)
  ELSE HypotTable[<<Abs(dx), Abs(dy)>>]

pxDistBetween(p1, p2) ==
  MathHypot(Mul(Sub(p2.nx, p1.nx), videoWidth),
            Mul(Sub(p2.ny, p1.ny), videoHeight))

\* The calibration state with nothing set, and compute()'s empty info.
NoCalib == [p1 |-> Null, p2 |-> Null, metersPerPixel |-> Null, pxDist |-> Null]
NoInfo == [distance_m |-> Null, dt_s |-> Null, speed_mps |-> Null,
           speed_kmh |-> Null, speed_mph |-> Null]

\* Contents of the readouts and of the results area.
Markup == [txt |-> "as served"]
CalibNotSet == [txt |-> "Calibration: not set"]
CalibWaiting ==
  [txt |-> "Calibration: waiting for valid known distance and two clicks."]
CalibSet(known, px, mpp) ==
  [txt |-> "Calibration", known |-> fmt(known, 3), px |-> fmt(px, 1),
   mpp |-> fmt(mpp, 6)]
AbNotSet == [txt |-> "A/B: not set"]
AbSet(a, b, pxAB, dt) ==
  [txt |-> "A/B", tA |-> fmt(a.t, 3), tB |-> fmt(b.t, 3), px |-> fmt(pxAB, 1),
   dt |-> fmt(dt, 4)]
ResultsOf(i, skew) ==
  [txt |-> "Speed", distance |-> fmt(i.distance_m, 3), dt |-> fmt(i.dt_s, 4),
   mps |-> fmt(i.speed_mps, 3), kmh |-> fmt(i.speed_kmh, 2),
   mph |-> fmt(i.speed_mph, 2), skew |-> fmt(OrZero(NumberOf(skew)), 1)]

\* What compute() and its callers read and write.
Marks ==
  [calib |-> calib, A |-> A, B |-> B, knownMeters |-> knownMeters,
   skewDeg |-> skewDeg, calibReadout |-> calibReadout,
   abReadout |-> abReadout, results |-> results, info |-> info]

\* The calibration block, leaving the factor as it is when an input is invalid.
calibrate_KeepFactor(s, known, px) ==
  IF Lt(Zero, known) /\ Lt(Zero, px)
    THEN [s EXCEPT !.calib.pxDist = px,
                   !.calib.metersPerPixel = Div(known, px),
                   !.calibReadout = CalibSet(known, px, Div(known, px))]
    ELSE [s EXCEPT !.calibReadout = CalibWaiting]

\* The calibration block, adding to a factor that is already set.
calibrate_Incremental(s, known, px) ==
  IF Lt(Zero, known) /\ Lt(Zero, px)
    THEN [s EXCEPT !.calib.pxDist = px,
                   !.calib.metersPerPixel =
                     IF s.calib.metersPerPixel = Null THEN Div(known, px)
                     ELSE Add(s.calib.metersPerPixel, Div(known, px)),
                   !.calibReadout = CalibSet(known, px, Div(known, px))]
    ELSE [s EXCEPT !.calib.metersPerPixel = Null,
                   !.calibReadout = CalibWaiting]

\* The calibration block of compute(), both points set.
calibrate(s, known, px) ==
  IF Lt(Zero, known) /\ Lt(Zero, px)
    THEN [s EXCEPT !.calib.pxDist = px,
                   !.calib.metersPerPixel = Div(known, px),
                   !.calibReadout = CalibSet(known, px, Div(known, px))]
    ELSE [s EXCEPT !.calib.metersPerPixel = Null,
                   !.calibReadout = CalibWaiting]

computeCalib(s) ==
  IF s.calib.p1 # Null /\ s.calib.p2 # Null
    THEN calibrate(s, NumberOf(s.knownMeters),
                   pxDistBetween(s.calib.p1, s.calib.p2))
    ELSE s

\* The conversions of compute().
mphOf(v) == Mul(v, MphFactor)
kmhOf(v) == Mul(v, KmhFactor)

infoOf(d, dt, v) ==
  [distance_m |-> d, dt_s |-> dt, speed_mps |-> v, speed_kmh |-> kmhOf(v),
   speed_mph |-> mphOf(v)]

\* The speed block of compute(): the info it fills and the results it writes.
withInfo(s, i) == [s EXCEPT !.info = i, !.results = ResultsOf(i, s.skewDeg)]

\* The speed block with the skew correction multiplied in.
speedOf_Times(s, d, dt, corrected) ==
  withInfo(s, infoOf(d, dt, Mul(Div(d, dt), corrected)))

speedOf(s, d, dt, corrected) ==
  withInfo(s, infoOf(d, dt, Div(Div(d, dt), corrected)))

\* The A/B block without the check of the elapsed time.
marked_NoTimeCheck(s, pxAB, dt) ==
  IF Truthy(s.calib.metersPerPixel)
    THEN speedOf([s EXCEPT !.abReadout = AbSet(s.A, s.B, pxAB, dt)],
                 Mul(pxAB, s.calib.metersPerPixel), dt,
                 OrOne(MathCos(toRad(s.skewDeg))))
    ELSE [s EXCEPT !.abReadout = AbSet(s.A, s.B, pxAB, dt)]

\* The A/B block of compute(), both marks set.
marked(s, pxAB, dt) ==
  IF Truthy(s.calib.metersPerPixel) /\ Lt(Zero, dt)
    THEN speedOf([s EXCEPT !.abReadout = AbSet(s.A, s.B, pxAB, dt)],
                 Mul(pxAB, s.calib.metersPerPixel), dt,
                 OrOne(MathCos(toRad(s.skewDeg))))
    ELSE [s EXCEPT !.abReadout = AbSet(s.A, s.B, pxAB, dt)]

computeAB(s) ==
  IF s.A # Null /\ s.B # Null
    THEN marked(s, pxDistBetween(s.A, s.B), Abs(Sub(s.A.t, s.B.t)))
    ELSE s

compute(s) == computeAB(computeCalib([s EXCEPT !.info = NoInfo]))

clearAB(s) ==
  compute([s EXCEPT !.A = Null, !.B = Null, !.abReadout = AbNotSet])
clearCalib_KeepPoints(s) == compute([s EXCEPT !.calibReadout = CalibNotSet])
clearCalib(s) ==
  compute([s EXCEPT !.calib = NoCalib, !.calibReadout = CalibNotSet])

\* The screen takes over what a handler computed.
Set(s) ==
  /\ calib' = s.calib
  /\ A' = s.A
  /\ B' = s.B
  /\ knownMeters' = s.knownMeters
  /\ skewDeg' = s.skewDeg
  /\ calibReadout' = s.calibReadout
  /\ abReadout' = s.abReadout
  /\ results' = s.results
  /\ info' = s.info

\* Texts typed into the two fields, playback positions, and click positions
\* relative to the overlay (the last one lies outside it).
KnownInputs == {"0", "2"}
SkewInputs == {"0", "5"}
Times == {Zero, Dec(1, 5, 0 - 1)}
Clicks ==
  {[x |-> Zero, y |-> Zero], [x |-> One, y |-> One],
   [x |-> Dec(1, 15, 0 - 1), y |-> One]}

\* The marking screen once its script has run.
MarkInit ==
  /\ video = "empty"
  /\ currentTime = Zero
  /\ mode = "idle"
  /\ calib = NoCalib
  /\ A = Null
  /\ B = Null
  /\ knownMeters \in KnownInputs
  /\ skewDeg \in SkewInputs
  /\ status = ""
  /\ calibReadout = Markup
  /\ abReadout = Markup
  /\ results = Markup
  /\ info = NoInfo

\* fileInput 'change'
FileChange(hasFile) ==
  /\ screen = "marking"
  /\ IF ~hasFile
       THEN UNCHANGED markVars
       ELSE /\ video' = "loading"
            /\ currentTime' = Zero
            /\ status' = "Video loaded. Pause on a frame, then click points."
            /\ UNCHANGED mode
            /\ Set(clearAB(clearCalib(Marks)))
  /\ UNCHANGED <<screen, calcVars, angleVars, videoVars>>

\* video 'loadedmetadata'
LoadedMetadata ==
  /\ screen = "marking"
  /\ video = "loading"
  /\ video' = "ready"
  /\ UNCHANGED <<currentTime, mode, calib, A, B, knownMeters, skewDeg, status,
                 calibReadout, abReadout, results, info>>
  /\ UNCHANGED <<screen, calcVars, angleVars, videoVars>>

\* The user moves the playback position.
Seek(t) ==
  /\ screen = "marking"
  /\ video = "ready"
  /\ t # currentTime
  /\ currentTime' = t
  /\ UNCHANGED <<video, mode, calib, A, B, knownMeters, skewDeg, status,
                 calibReadout, abReadout, results, info>>
  /\ UNCHANGED <<screen, calcVars, angleVars, videoVars>>

\* btnCalibrate 'click'
BtnCalibrate ==
  /\ screen = "marking"
  /\ IF ~Lt(Zero, NumberOf(knownMeters))
       THEN /\ status' = "Enter a valid known distance in meters before calibrating."
            /\ UNCHANGED <<mode, calib>>
       ELSE /\ calib' = NoCalib
            /\ mode' = "calib1"
            /\ status' = "Calibration: click point 1 on the video."
  /\ UNCHANGED <<video, currentTime, A, B, knownMeters, skewDeg, calibReadout,
                 abReadout, results, info>>
  /\ UNCHANGED <<screen, calcVars, angleVars, videoVars>>

\* btnResetCalib 'click'
BtnResetCalib ==
  /\ screen = "marking"
  /\ status' = "Calibration reset."
  /\ UNCHANGED <<video, currentTime, mode>>
  /\ Set(clearCalib(Marks))
  /\ UNCHANGED <<screen, calcVars, angleVars, videoVars>>

\* btnMarkA 'click'
BtnMarkA ==
  /\ screen = "marking"
  /\ mode' = "markA"
  /\ status' = "Mark A: pause video at time t1 and click the shuttle."
  /\ UNCHANGED <<video, currentTime, calib, A, B, knownMeters, skewDeg,
                 calibReadout, abReadout, results, info>>
  /\ UNCHANGED <<screen, calcVars, angleVars, videoVars>>

\* btnMarkB 'click'
BtnMarkB ==
  /\ screen = "marking"
  /\ mode' = "markB"
  /\ status' = "Mark B: pause video at time t2 and click the shuttle."
  /\ UNCHANGED <<video, currentTime, calib, A, B, knownMeters, skewDeg,
                 calibReadout, abReadout, results, info>>
  /\ UNCHANGED <<screen, calcVars, angleVars, videoVars>>

\* btnResetAB 'click'
BtnResetAB ==
  /\ screen = "marking"
  /\ Set(clearAB(Marks))
  /\ status' = "Cleared A/B."
  /\ UNCHANGED <<video, currentTime, mode>>
  /\ UNCHANGED <<screen, calcVars, angleVars, videoVars>>

\* overlay 'click'
OverlayClick(ev) ==
  /\ screen = "marking"
  /\ UNCHANGED <<video, currentTime>>
  /\ CASE mode = "calib1" ->
            /\ mode' = "calib2"
            /\ status' = "Calibration: click point 2."
            /\ Set([Marks EXCEPT !.calib.p1 = normFromEvent(ev)])
       [] mode = "calib2" ->
            /\ mode' = "idle"
            /\ status' = "Calibration set."
            /\ Set(compute([Marks EXCEPT !.calib.p2 = normFromEvent(ev)]))
       [] mode = "markA" ->
            /\ mode' = "idle"
            /\ status' = "Marked A."
            /\ Set(compute([Marks EXCEPT
                 !.A = [nx |-> normFromEvent(ev).nx, ny |-> normFromEvent(ev).ny,
                        t |-> currentTime]]))
       [] mode = "markB" ->
            /\ mode' = "idle"
            /\ status' = "Marked B."
            /\ Set(compute([Marks EXCEPT
                 !.B = [nx |-> normFromEvent(ev).nx, ny |-> normFromEvent(ev).ny,
                        t |-> currentTime]]))
       [] OTHER -> UNCHANGED <<mode, status, calib, A, B, knownMeters, skewDeg,
                               calibReadout, abReadout, results, info>>
  /\ UNCHANGED <<screen, calcVars, angleVars, videoVars>>

\* knownMeters 'input'
InputKnown(text) ==
  /\ screen = "marking"
  /\ text # knownMeters
  /\ Set(compute([Marks EXCEPT !.knownMeters = text]))
  /\ UNCHANGED <<video, currentTime, mode, status>>
  /\ UNCHANGED <<screen, calcVars, angleVars, videoVars>>

\* skewDeg 'input'
InputSkew(text) ==
  /\ screen = "marking"
  /\ text # skewDeg
  /\ Set(compute([Marks EXCEPT !.skewDeg = text]))
  /\ UNCHANGED <<video, currentTime, mode, status>>
  /\ UNCHANGED <<screen, calcVars, angleVars, videoVars>>


(***************************************************************************)
(* The angle tool                                                          *)
(***************************************************************************)

\* The three forms of the tool.  "free" (part_000): every point follows the
\* mouse and the angle is the difference of two directions.  "reflect"
\* (part_001): the baseline is kept horizontal, the angle comes from the
\* dot product, and Flip mirrors the rig.  "polar" (app.js): the baseline is
\* kept horizontal, the angle is the slope of the free segment, a drag of the
\* free end is held at the diagonal, and Flip places the free end anew.
Tools == {"free", "reflect", "polar"}

\* A point of the canvas, in pixels; a point whose coordinates are NaN.
Point(x, y) == [x |-> x, y |-> y]
NaNPoint == [nan |-> TRUE]

\* A whole number of pixels as a number, and a point the flip handler of
\* app.js has placed: its coordinates are no whole pixels.
Num(n) == Dec(IF n < 0 THEN 0 - 1 ELSE 1, IF n < 0 THEN 0 - n ELSE n, 0)
Placed(x, y) == [x |-> x, y |-> y, placed |-> TRUE]
IsPlaced(p) == DOMAIN p = {"x", "y", "placed"}

\* Positions of the mouse events, as getMousePos gives them.
MouseXs == {150, 350, 450}
MouseYs == {100, 200, 300}
MousePositions == {Point(x, y) : x \in MouseXs, y \in MouseYs}

AbsInt(n) == IF n < 0 THEN 0 - n ELSE n
SignInt(n) == IF n < 0 THEN 0 - 1 ELSE IF n > 0 THEN 1 ELSE 0
MaxInt(a, b) == IF a < b THEN b ELSE a
MinInt(a, b) == IF a < b THEN a ELSE b
RECURSIVE Gcd(_, _)
Gcd(a, b) == IF b = 0 THEN a ELSE Gcd(b, a % b)

\* The vector between two points, its direction in lowest terms, and the
\* dot product.
Vec(from, to) == Point(to.x - from.x, to.y - from.y)
Scaled(v, g) == IF g = 0 THEN v ELSE Point(v.x \div g, v.y \div g)
Direction(v) == Scaled(v, Gcd(AbsInt(v.x), AbsInt(v.y)))
Dot(u, v) == u.x * v.x + u.y * v.y

\* Math.acos in degrees, by the sign of the cosine and its square p / q.
AcosTable ==
  [k \in {<<0 - 1, 1, 1>>, <<0 - 1, 1, 2>>, <<0 - 1, 1, 5>>, <<0 - 1, 4, 5>>,
          <<0 - 1, 9, 10>>, <<0 - 1, 9, 13>>, <<0, 0, 1>>, <<1, 1, 1>>,
          <<1, 1, 2>>, <<1, 1, 5>>, <<1, 4, 5>>, <<1, 9, 10>>,
          <<1, 9, 13>>} |->
     CASE k = <<0 - 1, 1, 1>> -> Dec(1, 18, 1)
       [] k = <<0 - 1, 1, 2>> -> Dec(1, 135, 0)
       [] k = <<0 - 1, 1, 5>> -> Dec(1, 1165651, 0 - 4)
       [] k = <<0 - 1, 4, 5>> -> Dec(1, 1534349, 0 - 4)
       [] k = <<0 - 1, 9, 10>> -> Dec(1, 1615651, 0 - 4)
       [] k = <<0 - 1, 9, 13>> -> Dec(1, 1463099, 0 - 4)
       [] k = <<0, 0, 1>> -> Dec(1, 9, 1)
       [] k = <<1, 1, 1>> -> Zero
       [] k = <<1, 1, 2>> -> Dec(1, 45, 0)
       [] k = <<1, 1, 5>> -> Dec(1, 6343495, 0 - 5)
       [] k = <<1, 4, 5>> -> Dec(1, 2656505, 0 - 5)
       [] k = <<1, 9, 10>> -> Dec(1, 1843495, 0 - 5)
       [] k = <<1, 9, 13>> -> Dec(1, 3369007, 0 - 5)]

\* Math.atan2 in degrees, by the direction <<y, x>> in lowest terms.
Atan2Table ==
  [k \in {<<0 - 2, 0 - 3>>, <<0 - 2, 0 - 1>>, <<0 - 2, 1>>, <<0 - 2, 3>>,
          <<0 - 1, 0 - 3>>, <<0 - 1, 0 - 2>>, <<0 - 1, 0 - 1>>, <<0 - 1, 0>>,
          <<0 - 1, 1>>, <<0 - 1, 2>>, <<0 - 1, 3>>, <<0, 0 - 1>>,
          <<0, 1>>, <<1, 0 - 3>>, <<1, 0 - 2>>, <<1, 0 - 1>>,
          <<1, 0>>, <<1, 1>>, <<1, 2>>, <<1, 3>>,
          <<2, 0 - 3>>, <<2, 0 - 1>>, <<2, 1>>, <<2, 3>>} |->
     CASE k = <<0 - 2, 0 - 3>> -> Dec(0 - 1, 1463099, 0 - 4)
       [] k = <<0 - 2, 0 - 1>> -> Dec(0 - 1, 1165651, 0 - 4)
       [] k = <<0 - 2, 1>> -> Dec(0 - 1, 6343495, 0 - 5)
       [] k = <<0 - 2, 3>> -> Dec(0 - 1, 3369007, 0 - 5)
       [] k = <<0 - 1, 0 - 3>> -> Dec(0 - 1, 1615651, 0 - 4)
       [] k = <<0 - 1, 0 - 2>> -> Dec(0 - 1, 1534349, 0 - 4)
       [] k = <<0 - 1, 0 - 1>> -> Dec(0 - 1, 135, 0)
       [] k = <<0 - 1, 0>> -> Dec(0 - 1, 9, 1)
       [] k = <<0 - 1, 1>> -> Dec(0 - 1, 45, 0)
       [] k = <<0 - 1, 2>> -> Dec(0 - 1, 2656505, 0 - 5)
       [] k = <<0 - 1, 3>> -> Dec(0 - 1, 1843495, 0 - 5)
       [] k = <<0, 0 - 1>> -> Dec(1, 18, 1)
       [] k = <<0, 1>> -> Zero
       [] k = <<1, 0 - 3>> -> Dec(1, 1615651, 0 - 4)
       [] k = <<1, 0 - 2>> -> Dec(1, 1534349, 0 - 4)
       [] k = <<1, 0 - 1>> -> Dec(1, 135, 0)
       [] k = <<1, 0>> -> Dec(1, 9, 1)
       [] k = <<1, 1>> -> Dec(1, 45, 0)
       [] k = <<1, 2>> -> Dec(1, 2656505, 0 - 5)
       [] k = <<1, 3>> -> Dec(1, 1843495, 0 - 5)
       [] k = <<2, 0 - 3>> -> Dec(1, 1463099, 0 - 4)
       [] k = <<2, 0 - 1>> -> Dec(1, 1165651, 0 - 4)
       [] k = <<2, 1>> -> Dec(1, 6343495, 0 - 5)
       [] k = <<2, 3>> -> Dec(1, 3369007, 0 - 5)]

\* Math.acos(dot / (|u| * |v|)) * (180 / Math.PI) as an IEEE double evaluation
\* gives it, to seven digits: NaN when a vector has length 0 (0 / 0), and
\* otherwise tabulated on the cosine, given by its sign and its square in
\* lowest terms.
CosKey(d, m2, g) == <<SignInt(d), (d * d) \div g, m2 \div g>>
AcosOf(d, m2) == AcosTable[CosKey(d, m2, Gcd(d * d, m2))]
AcosDegrees(u, v) ==
  IF Dot(u, u) = 0 \/ Dot(v, v) = 0 THEN NaN
  ELSE AcosOf(Dot(Direction(u), Direction(v)),
              Dot(Direction(u), Direction(u)) * Dot(Direction(v), Direction(v)))

\* Math.atan2(v.y, v.x) * (180 / Math.PI), to seven digits; atan2(0, 0) = 0.
Atan2Degrees(v) ==
  IF v.x = 0 /\ v.y = 0 THEN Zero
  ELSE Atan2Table[<<Direction(v).y, Direction(v).x>>]

\* Math.cos and Math.sin of currentAngle * Math.PI / 180, tabulated on the
\* angles of the rigs with whole-pixel points and on the angles a flip of such
\* a rig leaves.
TurnTable ==
  [k \in {Zero, Dec(1, 1843494, 0 - 5),
          Dec(1, 1843495, 0 - 5), Dec(1, 2656505, 0 - 5),
          Dec(1, 3369007, 0 - 5), Dec(1, 45, 0),
          Dec(1, 6343495, 0 - 5), Dec(1, 9, 1)} |->
     CASE k = Zero ->
              [cos |-> Dec(1, 1, 0), sin |-> Zero]
       [] k = Dec(1, 1843494, 0 - 5) ->
              [cos |-> Dec(1, 9486833, 0 - 7), sin |-> Dec(1, 3162276, 0 - 7)]
       [] k = Dec(1, 1843495, 0 - 5) ->
              [cos |-> Dec(1, 9486833, 0 - 7), sin |-> Dec(1, 3162278, 0 - 7)]
       [] k = Dec(1, 2656505, 0 - 5) ->
              [cos |-> Dec(1, 8944272, 0 - 7), sin |-> Dec(1, 4472136, 0 - 7)]
       [] k = Dec(1, 3369007, 0 - 5) ->
              [cos |-> Dec(1, 8320503, 0 - 7), sin |-> Dec(1, 5547002, 0 - 7)]
       [] k = Dec(1, 45, 0) ->
              [cos |-> Dec(1, 7071068, 0 - 7), sin |-> Dec(1, 7071068, 0 - 7)]
       [] k = Dec(1, 6343495, 0 - 5) ->
              [cos |-> Dec(1, 4472136, 0 - 7), sin |-> Dec(1, 8944272, 0 - 7)]
       [] k = Dec(1, 9, 1) ->
              [cos |-> Dec(1, 6123234, 0 - 23), sin |-> Dec(1, 1, 0)]]

\* Math.atan2(|y|, |x|) * (180 / Math.PI) on the vectors <<|y|, |x|>> from the
\* vertex to a placed free end.
PlacedAtanTable ==
  [k \in {<<Zero, Dec(1, 5, 1)>>,
          <<Zero, Dec(1, 15, 1)>>,
          <<Zero, Dec(1, 25, 1)>>,
          <<Zero, Dec(1, 35, 1)>>,
          <<Zero, Dec(1, 45, 1)>>,
          <<Dec(1, 474341, 0 - 4), Dec(1, 423024, 0 - 4)>>,
          <<Dec(1, 474341, 0 - 4), Dec(1, 576976, 0 - 4)>>,
          <<Dec(1, 474341, 0 - 4), Dec(1, 1423024, 0 - 4)>>,
          <<Dec(1, 474341, 0 - 4), Dec(1, 1576976, 0 - 4)>>,
          <<Dec(1, 474341, 0 - 4), Dec(1, 2423024, 0 - 4)>>,
          <<Dec(1, 474341, 0 - 4), Dec(1, 3423024, 0 - 4)>>,
          <<Dec(1, 474341, 0 - 4), Dec(1, 4423024, 0 - 4)>>,
          <<Dec(1, 67082, 0 - 3), Dec(1, 34164, 0 - 3)>>,
          <<Dec(1, 67082, 0 - 3), Dec(1, 65836, 0 - 3)>>,
          <<Dec(1, 67082, 0 - 3), Dec(1, 134164, 0 - 3)>>,
          <<Dec(1, 67082, 0 - 3), Dec(1, 165836, 0 - 3)>>,
          <<Dec(1, 67082, 0 - 3), Dec(1, 234164, 0 - 3)>>,
          <<Dec(1, 67082, 0 - 3), Dec(1, 334164, 0 - 3)>>,
          <<Dec(1, 67082, 0 - 3), Dec(1, 434164, 0 - 3)>>,
          <<Dec(1, 83205, 0 - 3), Dec(1, 248075, 0 - 4)>>,
          <<Dec(1, 83205, 0 - 3), Dec(1, 751925, 0 - 4)>>,
          <<Dec(1, 83205, 0 - 3), Dec(1, 1248075, 0 - 4)>>,
          <<Dec(1, 83205, 0 - 3), Dec(1, 1751925, 0 - 4)>>,
          <<Dec(1, 83205, 0 - 3), Dec(1, 2248075, 0 - 4)>>,
          <<Dec(1, 83205, 0 - 3), Dec(1, 3248075, 0 - 4)>>,
          <<Dec(1, 83205, 0 - 3), Dec(1, 4248075, 0 - 4)>>,
          <<Dec(1, 106066, 0 - 3), Dec(1, 6066, 0 - 3)>>,
          <<Dec(1, 106066, 0 - 3), Dec(1, 93934, 0 - 3)>>,
          <<Dec(1, 106066, 0 - 3), Dec(1, 106066, 0 - 3)>>,
          <<Dec(1, 106066, 0 - 3), Dec(1, 193934, 0 - 3)>>,
          <<Dec(1, 106066, 0 - 3), Dec(1, 206066, 0 - 3)>>,
          <<Dec(1, 106066, 0 - 3), Dec(1, 306066, 0 - 3)>>,
          <<Dec(1, 106066, 0 - 3), Dec(1, 406066, 0 - 3)>>,
          <<Dec(1, 134164, 0 - 3), Dec(1, 32918, 0 - 3)>>,
          <<Dec(1, 134164, 0 - 3), Dec(1, 67082, 0 - 3)>>,
          <<Dec(1, 134164, 0 - 3), Dec(1, 132918, 0 - 3)>>,
          <<Dec(1, 134164, 0 - 3), Dec(1, 167082, 0 - 3)>>,
          <<Dec(1, 134164, 0 - 3), Dec(1, 232918, 0 - 3)>>,
          <<Dec(1, 134164, 0 - 3), Dec(1, 267082, 0 - 3)>>,
          <<Dec(1, 134164, 0 - 3), Dec(1, 367082, 0 - 3)>>,
          <<Dec(1, 15, 1), Zero>>,
          <<Dec(1, 15, 1), Dec(1, 1, 2)>>,
          <<Dec(1, 15, 1), Dec(1, 2, 2)>>,
          <<Dec(1, 15, 1), Dec(1, 3, 2)>>} |->
     CASE k = <<Zero, Dec(1, 5, 1)>> ->
              Zero
       [] k = <<Zero, Dec(1, 15, 1)>> ->
              Zero
       [] k = <<Zero, Dec(1, 25, 1)>> ->
              Zero
       [] k = <<Zero, Dec(1, 35, 1)>> ->
              Zero
       [] k = <<Zero, Dec(1, 45, 1)>> ->
              Zero
       [] k = <<Dec(1, 474341, 0 - 4), Dec(1, 423024, 0 - 4)>> ->
              Dec(1, 4827297, 0 - 5)
       [] k = <<Dec(1, 474341, 0 - 4), Dec(1, 576976, 0 - 4)>> ->
              Dec(1, 3942416, 0 - 5)
       [] k = <<Dec(1, 474341, 0 - 4), Dec(1, 1423024, 0 - 4)>> ->
              Dec(1, 1843494, 0 - 5)
       [] k = <<Dec(1, 474341, 0 - 4), Dec(1, 1576976, 0 - 4)>> ->
              Dec(1, 1674084, 0 - 5)
       [] k = <<Dec(1, 474341, 0 - 4), Dec(1, 2423024, 0 - 4)>> ->
              Dec(1, 1107638, 0 - 5)
       [] k = <<Dec(1, 474341, 0 - 4), Dec(1, 3423024, 0 - 4)>> ->
              Dec(1, 7889443, 0 - 6)
       [] k = <<Dec(1, 474341, 0 - 4), Dec(1, 4423024, 0 - 4)>> ->
              Dec(1, 612121, 0 - 5)
       [] k = <<Dec(1, 67082, 0 - 3), Dec(1, 34164, 0 - 3)>> ->
              Dec(1, 6301084, 0 - 5)
       [] k = <<Dec(1, 67082, 0 - 3), Dec(1, 65836, 0 - 3)>> ->
              Dec(1, 4553709, 0 - 5)
       [] k = <<Dec(1, 67082, 0 - 3), Dec(1, 134164, 0 - 3)>> ->
              Dec(1, 2656505, 0 - 5)
       [] k = <<Dec(1, 67082, 0 - 3), Dec(1, 165836, 0 - 3)>> ->
              Dec(1, 2202373, 0 - 5)
       [] k = <<Dec(1, 67082, 0 - 3), Dec(1, 234164, 0 - 3)>> ->
              Dec(1, 1598565, 0 - 5)
       [] k = <<Dec(1, 67082, 0 - 3), Dec(1, 334164, 0 - 3)>> ->
              Dec(1, 1135101, 0 - 5)
       [] k = <<Dec(1, 67082, 0 - 3), Dec(1, 434164, 0 - 3)>> ->
              Dec(1, 8783227, 0 - 6)
       [] k = <<Dec(1, 83205, 0 - 3), Dec(1, 248075, 0 - 4)>> ->
              Dec(1, 733981, 0 - 4)
       [] k = <<Dec(1, 83205, 0 - 3), Dec(1, 751925, 0 - 4)>> ->
              Dec(1, 4789583, 0 - 5)
       [] k = <<Dec(1, 83205, 0 - 3), Dec(1, 1248075, 0 - 4)>> ->
              Dec(1, 3369007, 0 - 5)
       [] k = <<Dec(1, 83205, 0 - 3), Dec(1, 1751925, 0 - 4)>> ->
              Dec(1, 2540467, 0 - 5)
       [] k = <<Dec(1, 83205, 0 - 3), Dec(1, 2248075, 0 - 4)>> ->
              Dec(1, 2031035, 0 - 5)
       [] k = <<Dec(1, 83205, 0 - 3), Dec(1, 3248075, 0 - 4)>> ->
              Dec(1, 1436832, 0 - 5)
       [] k = <<Dec(1, 83205, 0 - 3), Dec(1, 4248075, 0 - 4)>> ->
              Dec(1, 1108196, 0 - 5)
       [] k = <<Dec(1, 106066, 0 - 3), Dec(1, 6066, 0 - 3)>> ->
              Dec(1, 8672677, 0 - 5)
       [] k = <<Dec(1, 106066, 0 - 3), Dec(1, 93934, 0 - 3)>> ->
              Dec(1, 4847131, 0 - 5)
       [] k = <<Dec(1, 106066, 0 - 3), Dec(1, 106066, 0 - 3)>> ->
              Dec(1, 45, 0)
       [] k = <<Dec(1, 106066, 0 - 3), Dec(1, 193934, 0 - 3)>> ->
              Dec(1, 2867504, 0 - 5)
       [] k = <<Dec(1, 106066, 0 - 3), Dec(1, 206066, 0 - 3)>> ->
              Dec(1, 2723572, 0 - 5)
       [] k = <<Dec(1, 106066, 0 - 3), Dec(1, 306066, 0 - 3)>> ->
              Dec(1, 1911356, 0 - 5)
       [] k = <<Dec(1, 106066, 0 - 3), Dec(1, 406066, 0 - 3)>> ->
              Dec(1, 146388, 0 - 4)
       [] k = <<Dec(1, 134164, 0 - 3), Dec(1, 32918, 0 - 3)>> ->
              Dec(1, 7621444, 0 - 5)
       [] k = <<Dec(1, 134164, 0 - 3), Dec(1, 67082, 0 - 3)>> ->
              Dec(1, 6343495, 0 - 5)
       [] k = <<Dec(1, 134164, 0 - 3), Dec(1, 132918, 0 - 3)>> ->
              Dec(1, 452673, 0 - 4)
       [] k = <<Dec(1, 134164, 0 - 3), Dec(1, 167082, 0 - 3)>> ->
              Dec(1, 3876387, 0 - 5)
       [] k = <<Dec(1, 134164, 0 - 3), Dec(1, 232918, 0 - 3)>> ->
              Dec(1, 2994254, 0 - 5)
       [] k = <<Dec(1, 134164, 0 - 3), Dec(1, 267082, 0 - 3)>> ->
              Dec(1, 2667187, 0 - 5)
       [] k = <<Dec(1, 134164, 0 - 3), Dec(1, 367082, 0 - 3)>> ->
              Dec(1, 2007674, 0 - 5)
       [] k = <<Dec(1, 15, 1), Zero>> ->
              Dec(1, 9, 1)
       [] k = <<Dec(1, 15, 1), Dec(1, 1, 2)>> ->
              Dec(1, 5630993, 0 - 5)
       [] k = <<Dec(1, 15, 1), Dec(1, 2, 2)>> ->
              Dec(1, 368699, 0 - 4)
       [] k = <<Dec(1, 15, 1), Dec(1, 3, 2)>> ->
              Dec(1, 2656505, 0 - 5)]

Ninety == Dec(1, 90, 0)
FullTurn == Dec(1, 360, 0)

\* Math.max(0, Math.min(90, angle)): NaN stays NaN.
ClampAngle(angle) ==
  IF Lt(Ninety, angle) THEN Ninety ELSE IF Lt(angle, Zero) THEN Zero ELSE angle

\* The end of calculateAngle() of part_001: an angle above 90 is replaced by
\* 180 - angle, and the result is clamped.
acute(angle) ==
  ClampAngle(IF Lt(Ninety, angle) THEN Sub(HalfTurn, angle) ELSE angle)

\* The end of calculateAngle() of part_000: the difference of the directions
\* brought into 0 .. 360 and then into 0 .. 180.
Folded(angle) == IF Lt(HalfTurn, angle) THEN Sub(FullTurn, angle) ELSE angle
Unsigned(angle) == Folded(IF Lt(angle, Zero) THEN Add(angle, FullTurn) ELSE angle)

\* The three points of the rig.
Rig(a, b, c) == [baseLineStart |-> a, baseLineEnd |-> b, angleLineEnd |-> c]

\* calculateAngle() of app.js on the rig r: the slope of the free segment
\* against the horizontal.
slope(r) ==
  IF IsPlaced(r.angleLineEnd)
    THEN ClampAngle(PlacedAtanTable[
           <<Abs(Sub(r.angleLineEnd.y, Num(r.baseLineEnd.y))),
             Abs(Sub(r.angleLineEnd.x, Num(r.baseLineEnd.x)))>>])
  ELSE ClampAngle(Atan2Degrees(
         Point(AbsInt(r.angleLineEnd.x - r.baseLineEnd.x),
               AbsInt(r.angleLineEnd.y - r.baseLineEnd.y))))

\* calculateAngle() on the rig r.
calculateAngle(t, r) ==
  IF r.angleLineEnd = NaNPoint THEN NaN
  ELSE IF t = "polar" THEN slope(r)
  ELSE IF t = "reflect"
    THEN acute(AcosDegrees(Vec(r.baseLineStart, r.baseLineEnd),
                           Vec(r.baseLineEnd, r.angleLineEnd)))
  ELSE Unsigned(Sub(Atan2Degrees(Vec(r.baseLineEnd, r.angleLineEnd)),
                    Atan2Degrees(Vec(r.baseLineStart, r.baseLineEnd))))

\* isNearPoint(mouse, point): closer than the threshold of the form.
Threshold(t) == IF t = "free" THEN 15 ELSE 20
isNearPoint(t, mouse, point) ==
  /\ point # NaNPoint
  /\ IF IsPlaced(point)
       THEN Lt(Add(Mul(Sub(Num(mouse.x), point.x), Sub(Num(mouse.x), point.x)),
                   Mul(Sub(Num(mouse.y), point.y), Sub(Num(mouse.y), point.y))),
               Num(Threshold(t) * Threshold(t)))
       ELSE Dot(Vec(point, mouse), Vec(point, mouse))
              < Threshold(t) * Threshold(t)

\* Where the handle of the baseline end is drawn and grabbed.
HandleB(t, r) ==
  IF t = "free" THEN r.baseLineEnd
  ELSE Point(r.baseLineEnd.x, r.baseLineStart.y)

\* The point a mousedown at mouse grabs; "none" is null.
grabbed(t, r, mouse) ==
  IF isNearPoint(t, mouse, r.baseLineStart) THEN "baseStart"
  ELSE IF isNearPoint(t, mouse, HandleB(t, r)) THEN "baseEnd"
  ELSE IF isNearPoint(t, mouse, r.angleLineEnd) THEN "angleEnd"
  ELSE "none"

\* angleLineEnd.y += deltaY
Shifted(p, deltaY) ==
  IF p = NaNPoint THEN NaNPoint
  ELSE IF IsPlaced(p) THEN Placed(p.x, Add(p.y, Num(deltaY)))
  ELSE Point(p.x, p.y + deltaY)

\* The free end of app.js at the mouse, not above the baseline, and held at
\* the diagonal: dx, dy are its distances from the vertex.
held(a, mouse, dx, dy) ==
  IF AbsInt(dy) > AbsInt(dx) THEN Point(mouse.x, a.y + AbsInt(dx) * SignInt(dy))
  ELSE Point(mouse.x, a.y + dy)

\* The rig after a mousemove to mouse that drags point d.
dragged(t, r, d, mouse) ==
  IF t = "free"
    THEN CASE d = "baseStart" -> [r EXCEPT !.baseLineStart = mouse]
           [] d = "baseEnd" -> [r EXCEPT !.baseLineEnd = mouse]
           [] d = "angleEnd" -> [r EXCEPT !.angleLineEnd = mouse]
  ELSE CASE d = "baseStart" ->
              Rig(mouse, Point(r.baseLineEnd.x, mouse.y),
                  Shifted(r.angleLineEnd, mouse.y - r.baseLineStart.y))
         [] d = "baseEnd" ->
              [r EXCEPT !.baseLineEnd = Point(mouse.x, r.baseLineStart.y)]
         [] d = "angleEnd" ->
              [r EXCEPT !.angleLineEnd =
                 IF t = "polar"
                   THEN held(r.baseLineStart, mouse,
                             mouse.x - r.baseLineEnd.x,
                             MaxInt(r.baseLineStart.y, mouse.y)
                               - r.baseLineStart.y)
                 ELSE Point(mouse.x, MaxInt(r.baseLineStart.y, mouse.y))]

\* The reflection of the flip handler: base and current are baseVec and
\* currentVec, vertex is the baseline end after the swap.  The quotient
\* dotProduct / baseMagSq is 0 / 0 = NaN on a baseline of length 0; on pixel
\* coordinates (dotProduct / baseMagSq) * baseVec is exact.
reflected(vertex, base, current) ==
  IF Dot(base, base) = 0 THEN NaNPoint
  ELSE Point(vertex.x + 2 * ((Dot(current, base) * base.x) \div Dot(base, base))
               - current.x,
             vertex.y + 2 * ((Dot(current, base) * base.y) \div Dot(base, base))
               - current.y)

\* The rig after the flip handler: the ends of the baseline swapped, the free
\* end mirrored.
flipped(r) ==
  IF r.angleLineEnd = NaNPoint
    THEN Rig(r.baseLineEnd, r.baseLineStart, NaNPoint)
  ELSE Rig(r.baseLineEnd, r.baseLineStart,
           reflected(r.baseLineStart, Vec(r.baseLineEnd, r.baseLineStart),
                     Vec(r.baseLineStart, r.angleLineEnd)))

\* The rig after the flip handler of app.js, on the angle measured and the
\* new value f of the flag: the ends of the baseline swapped, the free end
\* placed angleLength from the new vertex.
angleLength == 150
replaced(r, angle, f) ==
  Rig(r.baseLineEnd, r.baseLineStart,
      Placed(IF f THEN Sub(Num(r.baseLineStart.x),
                           Mul(Num(angleLength), TurnTable[angle].cos))
             ELSE Add(Num(r.baseLineStart.x),
                      Mul(Num(angleLength), TurnTable[angle].cos)),
             Add(Num(r.baseLineStart.y),
                 Mul(Num(angleLength), TurnTable[angle].sin))))

\* A flip that acts only when it sets the flag.
flip_SetOnly(t, r, angle, f) ==
  IF ~f THEN r
  ELSE IF t = "polar" THEN replaced(r, angle, f) ELSE flipped(r)

\* The rig after a click on Flip, by the form of the tool.
flip(t, r, angle, f) ==
  IF t = "polar" THEN replaced(r, angle, f) ELSE flipped(r)

\* The rig as it is now.
rig == Rig(baseLineStart, baseLineEnd, angleLineEnd)

\* The rig of initAngleTool.
InitialRig(t) ==
  Rig(Point(150, 200), Point(450, 200),
      IF t = "free" THEN Point(450, 100) ELSE Point(350, 300))

\* toFixed(1) of an angle, the text "NaN" for NaN.
NaNText == [txt |-> "NaN", s |-> 1, m |-> 0, e |-> 0]
angleText(n) == IF IsNaN(n) THEN NaNText ELSE ToFixed(n, 1)

\* angleValue.textContent, without the degree sign.
angleValue == angleText(currentAngle)

\* The rig r without the angle being calculated anew.
Drawn_KeepAngle(r) ==
  /\ baseLineStart' = r.baseLineStart
  /\ baseLineEnd' = r.baseLineEnd
  /\ angleLineEnd' = r.angleLineEnd
  /\ currentAngle' = currentAngle

\* The handlers leave the rig r, drawn.
Drawn(r) ==
  /\ baseLineStart' = r.baseLineStart
  /\ baseLineEnd' = r.baseLineEnd
  /\ angleLineEnd' = r.angleLineEnd
  /\ currentAngle' = calculateAngle(tool, r)

\* The freeze of the video under the rig (part_001 427-548).  currentTime
\* counts frames of 1 / frameRate s, the unit of the two frame buttons; a
\* captured frame is known by the time it shows.
NoAngleVideo ==
  [src |-> "none", currentTime |-> 0, paused |-> TRUE, frozenFrame |-> Null,
   captures |-> 0, freezeHidden |-> TRUE, unfreezeHidden |-> TRUE,
   navHidden |-> TRUE]

frameRate == 30

\* The frame the frame buttons are followed to, and the capture timers
\* pending at a time.
MaxFrame == 2
MaxCaptures == 2

\* syncVideoWithMain(), 500 ms after a 'change' of videoUpload: src is what
\* the main player refers to; startTime of the time tool is null.
syncVideoWithMain(f, src) ==
  IF src = "none" THEN f
  ELSE [f EXCEPT !.src = src, !.currentTime = 0, !.paused = TRUE,
                 !.freezeHidden = FALSE]

captureFrame(f) == [f EXCEPT !.frozenFrame = [frame |-> f.currentTime]]

\* One of the timers of the frame buttons runs captureFrame.
captured(f) == [captureFrame(f) EXCEPT !.captures = f.captures - 1]

\* The listeners of Freeze, Previous / Next frame (by = -1 / 1) and Unfreeze.
frozen(f) ==
  [captureFrame([f EXCEPT !.paused = TRUE]) EXCEPT
     !.freezeHidden = TRUE, !.unfreezeHidden = FALSE,
     !.navHidden = FALSE]
framesOf(src) == frameRate * (IF src = "clip1" THEN 2 ELSE 4)
stepped(f, by) ==
  [f EXCEPT !.currentTime =
              IF by < 0 THEN MaxInt(0, f.currentTime - 1)
              ELSE MinInt(framesOf(f.src), f.currentTime + 1),
            !.captures = f.captures + 1]
unfrozen(f) ==
  [f EXCEPT !.frozenFrame = Null, !.paused = FALSE, !.unfreezeHidden = TRUE,
            !.freezeHidden = FALSE, !.navHidden = TRUE]

\* initAngleTool() has run, with its first draw().
AngleInit ==
  /\ tool \in Tools
  /\ baseLineStart = InitialRig(tool).baseLineStart
  /\ baseLineEnd = InitialRig(tool).baseLineEnd
  /\ angleLineEnd = InitialRig(tool).angleLineEnd
  /\ dragging = "none"
  /\ currentAngle = calculateAngle(tool, InitialRig(tool))
  /\ isFlipped = FALSE
  /\ inputAngle = Markup
  /\ angleVideo = NoAngleVideo

\* canvas 'mousedown'
MouseDown(mouse) ==
  /\ screen = "angle"
  /\ dragging' = IF grabbed(tool, rig, mouse) = "none" THEN dragging
                 ELSE grabbed(tool, rig, mouse)
  /\ UNCHANGED <<tool, baseLineStart, baseLineEnd, angleLineEnd, currentAngle,
                 isFlipped, inputAngle>>
  /\ UNCHANGED <<screen, calcVars, markVars, videoVars, angleVideo>>

\* canvas 'mousemove'
MouseMove(mouse) ==
  /\ screen = "angle"
  /\ IF dragging = "none"
       THEN UNCHANGED <<baseLineStart, baseLineEnd, angleLineEnd, currentAngle>>
       ELSE Drawn(dragged(tool, rig, dragging, mouse))
  /\ UNCHANGED <<tool, dragging, isFlipped, inputAngle>>
  /\ UNCHANGED <<screen, calcVars, markVars, videoVars, angleVideo>>

\* canvas 'mouseup' and 'mouseleave'
MouseUp ==
  /\ screen = "angle"
  /\ dragging' = "none"
  /\ UNCHANGED <<tool, baseLineStart, baseLineEnd, angleLineEnd, currentAngle,
                 isFlipped, inputAngle>>
  /\ UNCHANGED <<screen, calcVars, markVars, videoVars, angleVideo>>

\* btnFlipAngle 'click'
BtnFlipAngle ==
  /\ screen = "angle"
  /\ tool # "free"
  /\ tool = "polar" => currentAngle \in DOMAIN TurnTable
  /\ isFlipped' = ~isFlipped
  /\ Drawn(flip(tool, rig, currentAngle, ~isFlipped))
  /\ UNCHANGED <<tool, dragging, inputAngle>>
  /\ UNCHANGED <<screen, calcVars, markVars, videoVars, angleVideo>>

\* btnUseAngle 'click'
BtnUseAngle ==
  /\ screen = "angle"
  /\ inputAngle' = IF tool = "free" /\ ~Lt(Zero, currentAngle) THEN inputAngle
                   ELSE angleValue
  /\ UNCHANGED <<tool, baseLineStart, baseLineEnd, angleLineEnd, dragging,
                 currentAngle, isFlipped>>
  /\ UNCHANGED <<screen, calcVars, markVars, videoVars, angleVideo>>

\* The timer of the upload listener runs syncVideoWithMain.
SyncVideo(src) ==
  /\ screen = "angle"
  /\ angleVideo' = syncVideoWithMain(angleVideo, src)
  /\ UNCHANGED <<tool, baseLineStart, baseLineEnd, angleLineEnd, dragging,
                 currentAngle, isFlipped, inputAngle>>
  /\ UNCHANGED <<screen, calcVars, markVars, videoVars>>

\* btnFreezeVideo 'click'; a hidden button takes no click.
BtnFreezeVideo ==
  /\ screen = "angle"
  /\ ~angleVideo.freezeHidden
  /\ angleVideo' = frozen(angleVideo)
  /\ UNCHANGED <<tool, baseLineStart, baseLineEnd, angleLineEnd, dragging,
                 currentAngle, isFlipped, inputAngle>>
  /\ UNCHANGED <<screen, calcVars, markVars, videoVars>>

\* btnPrevFrame 'click' and btnNextFrame 'click'
BtnFrame(by) ==
  /\ screen = "angle"
  /\ ~angleVideo.navHidden
  /\ angleVideo.captures < MaxCaptures
  /\ by > 0 => angleVideo.currentTime < MaxFrame
  /\ angleVideo' = stepped(angleVideo, by)
  /\ UNCHANGED <<tool, baseLineStart, baseLineEnd, angleLineEnd, dragging,
                 currentAngle, isFlipped, inputAngle>>
  /\ UNCHANGED <<screen, calcVars, markVars, videoVars>>

\* A timer of 50 ms set by a frame button expires.
CaptureTimer ==
  /\ screen = "angle"
  /\ angleVideo.captures > 0
  /\ angleVideo' = captured(angleVideo)
  /\ UNCHANGED <<tool, baseLineStart, baseLineEnd, angleLineEnd, dragging,
                 currentAngle, isFlipped, inputAngle>>
  /\ UNCHANGED <<screen, calcVars, markVars, videoVars>>

\* btnUnfreezeVideo 'click'
BtnUnfreezeVideo ==
  /\ screen = "angle"
  /\ ~angleVideo.unfreezeHidden
  /\ angleVideo' = unfrozen(angleVideo)
  /\ UNCHANGED <<tool, baseLineStart, baseLineEnd, angleLineEnd, dragging,
                 currentAngle, isFlipped, inputAngle>>
  /\ UNCHANGED <<screen, calcVars, markVars, videoVars>>

\* The playback of the video under the rig moves on by a frame.
AngleTimeUpdate ==
  /\ screen = "angle"
  /\ angleVideo.src # "none"
  /\ ~angleVideo.paused
  /\ angleVideo.currentTime < MaxFrame
  /\ angleVideo' = [angleVideo EXCEPT !.currentTime = angleVideo.currentTime + 1]
  /\ UNCHANGED <<tool, baseLineStart, baseLineEnd, angleLineEnd, dragging,
                 currentAngle, isFlipped, inputAngle>>
  /\ UNCHANGED <<screen, calcVars, markVars, videoVars>>


(***************************************************************************)
(* The video analysis of src/app.js                                        *)
(***************************************************************************)

\* The form with the drag-constant field marks the two times with the Set
\* Start / Set End buttons (app.js 222-333); the form with the constant fixed
\* marks them with two sliders (app.js 519-676).
Sliders == variant = "fixedKx"

\* What a 'change' event of the file input carries: no file, a file that is
\* no video, or one of two clips, of 2 s and of 4 s.
Files == {"none", "text", "clip1", "clip2"}
IsVideo(file) == file \in {"clip1", "clip2"}
DurationOf(file) == IF file = "clip1" THEN Dec(1, 2, 0) ELSE Dec(1, 4, 0)

\* Positions of a slider and of the playback.
SliderInputs == {Zero, Dec(1, 50, 0), Dec(1, 100, 0)}
PlayTimes == {Zero, One}

\* The texts of the panel before any video: formatTime's '--:--'.
Dashes == [txt |-> "--:--"]
NoPanel ==
  [containerHidden |-> TRUE, uploadAreaHidden |-> FALSE, start |-> Markup,
   end |-> Markup, diff |-> Markup, diffHidden |-> TRUE, alert |-> ""]

\* What the handlers read and write.
Analysis ==
  [playerSrc |-> playerSrc, playerReady |-> playerReady,
   playerPaused |-> playerPaused, playerTime |-> playerTime,
   startTime |-> startTime, endTime |-> endTime, startSlider |-> startSlider,
   endSlider |-> endSlider, videoDuration |-> videoDuration, panel |-> panel,
   inputTime |-> inputTime, objectUrls |-> objectUrls]

\* The screen takes over what a handler computed.
Takes(s) ==
  /\ playerSrc' = s.playerSrc
  /\ playerReady' = s.playerReady
  /\ playerPaused' = s.playerPaused
  /\ playerTime' = s.playerTime
  /\ startTime' = s.startTime
  /\ endTime' = s.endTime
  /\ startSlider' = s.startSlider
  /\ endSlider' = s.endSlider
  /\ videoDuration' = s.videoDuration
  /\ panel' = s.panel
  /\ inputTime' = s.inputTime
  /\ objectUrls' = s.objectUrls

\* null in arithmetic is 0.
NumOf(t) == IF t = Null THEN Zero ELSE t

\* Math.abs(endTime - startTime)
diffOf(s) == Abs(Sub(NumOf(s.endTime), NumOf(s.startTime)))

\* The object URLs one visit of the page creates, at most.
MaxUrls == 3

\* URL.createObjectURL(file): one more URL that nothing revokes.
created(s) == [s EXCEPT !.objectUrls = s.objectUrls + 1]

\* videoPlayer.src = url: the player starts to load the file.
sourced(s, file) ==
  [s EXCEPT !.playerSrc = file, !.playerReady = FALSE, !.playerPaused = TRUE,
            !.playerTime = Zero]

\* updateTimeDisplays() of the slider form.
timesOf(s, start, end) ==
  [s EXCEPT !.startTime = start, !.endTime = end, !.panel.start = start,
            !.panel.end = end, !.panel.diff = ToFixed(Abs(Sub(end, start)), 3)]
updateTimeDisplays(s) ==
  timesOf(s, Mul(Div(s.startSlider, Dec(1, 100, 0)), s.videoDuration),
          Mul(Div(s.endSlider, Dec(1, 100, 0)), s.videoDuration))

\* updateTimeDifference() of the button form.
updateTimeDifference(s) ==
  IF s.startTime # Null /\ s.endTime # Null
    THEN [s EXCEPT !.panel.diff = ToFixed(diffOf(s), 3),
                   !.panel.diffHidden = FALSE]
    ELSE s

\* The 'change' listener of videoUpload.
uploaded(s, file) ==
  IF ~IsVideo(file) THEN s
  ELSE IF Sliders THEN sourced(created(s), file)
  ELSE [sourced(created(s), file) EXCEPT
          !.startTime = Null, !.endTime = Null, !.panel.containerHidden = FALSE,
          !.panel.start = Dashes, !.panel.end = Dashes,
          !.panel.diffHidden = TRUE]

\* The 'loadedmetadata' listeners the slider form has added.
initialised(s) ==
  updateTimeDisplays(
    [s EXCEPT !.videoDuration = DurationOf(s.playerSrc),
              !.panel.containerHidden = FALSE, !.panel.uploadAreaHidden = TRUE,
              !.startSlider = Zero, !.endSlider = Dec(1, 100, 0)])

\* The 'input' listeners of the two sliders, the slider already moved.
seeked(s, which) ==
  IF Lt(Zero, s.videoDuration) THEN [s EXCEPT !.playerTime = s[which]] ELSE s
startMoved(s) ==
  updateTimeDisplays(
    IF Lt(s.endSlider, s.startSlider) THEN [s EXCEPT !.endSlider = s.startSlider]
    ELSE s)
endMoved(s) ==
  updateTimeDisplays(
    IF Lt(s.endSlider, s.startSlider) THEN [s EXCEPT !.startSlider = s.endSlider]
    ELSE s)

\* The document 'keydown' listener of the slider form (part_001 364-397): an
\* arrow key moves the focused slider by one frame of a 30 fps video and the
\* player follows.  which is "startTime" or "endTime", the marker of the
\* focused slider.  A range input stores an assigned value rounded to its step
\* attribute; the attribute is in the page's markup, so the value is followed
\* both as assigned and rounded to whole numbers, the default step.
framePercent(s) ==
  Mul(Div(Div(One, Num(frameRate)), s.videoDuration), Dec(1, 100, 0))
SliderOf(which) == IF which = "startTime" THEN "startSlider" ELSE "endSlider"
Whole(n) == Dec(ToFixed(n, 0).s, ToFixed(n, 0).m, ToFixed(n, 0).e)
framed(v, fp, key) ==
  IF key = "ArrowLeft"
    THEN IF Lt(Sub(v, fp), Zero) THEN Zero ELSE Sub(v, fp)
    ELSE IF Lt(Dec(1, 100, 0), Add(v, fp)) THEN Dec(1, 100, 0) ELSE Add(v, fp)
keyed(s, which, key, whole) ==
  seeked(
    updateTimeDisplays(
      [s EXCEPT ![SliderOf(which)] =
         IF whole THEN Whole(framed(s[SliderOf(which)], framePercent(s), key))
         ELSE framed(s[SliderOf(which)], framePercent(s), key)]),
    which)

\* The Set Start / Set End listeners: which is "startTime" or "endTime".
marker(s, which) ==
  IF s.playerSrc # "none" /\ ~s.playerPaused
    THEN updateTimeDifference(
           IF which = "startTime"
             THEN [s EXCEPT !.startTime = s.playerTime,
                            !.panel.start = s.playerTime]
             ELSE [s EXCEPT !.endTime = s.playerTime,
                            !.panel.end = s.playerTime])
  ELSE IF s.playerSrc = "none" THEN [s EXCEPT !.panel.alert = "upload"]
  ELSE [s EXCEPT !.panel.alert = "play"]

\* The btnUseTime listener of the two forms.
usedTime(s) ==
  IF Sliders
    THEN IF Lt(Zero, diffOf(s)) THEN [s EXCEPT !.inputTime = ToFixed(diffOf(s), 3)]
         ELSE s
  ELSE IF s.startTime # Null /\ s.endTime # Null
    THEN [s EXCEPT !.inputTime = ToFixed(diffOf(s), 3)]
  ELSE s

\* initVideoAnalysis() has run.
VideoInit ==
  /\ playerSrc = "none"
  /\ playerReady = FALSE
  /\ playerPaused = TRUE
  /\ playerTime = Zero
  /\ startTime = Null
  /\ endTime = Null
  /\ startSlider = Zero
  /\ endSlider = Dec(1, 100, 0)
  /\ videoDuration = Zero
  /\ panel = NoPanel
  /\ inputTime = Markup
  /\ objectUrls = 0

\* videoUpload 'change'
Upload(file) ==
  /\ screen = "video"
  /\ IsVideo(file) => objectUrls < MaxUrls
  /\ Takes(uploaded(Analysis, file))
  /\ UNCHANGED <<screen, calcVars, markVars, angleVars>>

\* videoPlayer 'loadedmetadata'
MetadataLoaded ==
  /\ screen = "video"
  /\ playerSrc # "none"
  /\ ~playerReady
  /\ Takes(IF Sliders THEN initialised([Analysis EXCEPT !.playerReady = TRUE])
           ELSE [Analysis EXCEPT !.playerReady = TRUE])
  /\ UNCHANGED <<screen, calcVars, markVars, angleVars>>

\* The user starts or stops the playback; the playback position moves.
PlayPause ==
  /\ screen = "video"
  /\ playerReady
  /\ playerPaused' = ~playerPaused
  /\ UNCHANGED <<playerSrc, playerReady, playerTime, startTime, endTime,
                 startSlider, endSlider, videoDuration, panel, inputTime,
                 objectUrls>>
  /\ UNCHANGED <<screen, calcVars, markVars, angleVars>>

TimeUpdate(t) ==
  /\ screen = "video"
  /\ playerReady
  /\ playerTime' = t
  /\ UNCHANGED <<playerSrc, playerReady, playerPaused, startTime, endTime,
                 startSlider, endSlider, videoDuration, panel, inputTime,
                 objectUrls>>
  /\ UNCHANGED <<screen, calcVars, markVars, angleVars>>

\* closeVideoBtn 'click'
CloseVideo ==
  /\ screen = "video"
  /\ Sliders
  /\ ~panel.containerHidden
  /\ Takes([sourced(Analysis, "none") EXCEPT
              !.videoDuration = Zero, !.panel.containerHidden = TRUE,
              !.panel.uploadAreaHidden = FALSE])
  /\ UNCHANGED <<screen, calcVars, markVars, angleVars>>

\* startSlider 'input' and endSlider 'input'
StartSliderInput(v) ==
  /\ screen = "video"
  /\ Sliders
  /\ ~panel.containerHidden
  /\ Takes(seeked(startMoved([Analysis EXCEPT !.startSlider = v]), "startTime"))
  /\ UNCHANGED <<screen, calcVars, markVars, angleVars>>

EndSliderInput(v) ==
  /\ screen = "video"
  /\ Sliders
  /\ ~panel.containerHidden
  /\ Takes(seeked(endMoved([Analysis EXCEPT !.endSlider = v]), "endTime"))
  /\ UNCHANGED <<screen, calcVars, markVars, angleVars>>

\* document 'keydown' with ArrowLeft or ArrowRight while a slider has the
\* focus.  The steps followed are those from a position a slider input set.
KeyDown(which, key, whole) ==
  /\ screen = "video"
  /\ Sliders
  /\ ~panel.containerHidden
  /\ Lt(Zero, videoDuration)
  /\ Analysis[SliderOf(which)] \in SliderInputs
  /\ Takes(keyed(Analysis, which, key, whole))
  /\ UNCHANGED <<screen, calcVars, markVars, angleVars>>

\* btnSetStart 'click' and btnSetEnd 'click'
BtnSetMarker(which) ==
  /\ screen = "video"
  /\ ~Sliders
  /\ Takes(marker(Analysis, which))
  /\ UNCHANGED <<screen, calcVars, markVars, angleVars>>

\* btnUseTime 'click'
BtnUseTime ==
  /\ screen = "video"
  /\ Takes(usedTime(Analysis))
  /\ UNCHANGED <<screen, calcVars, markVars, angleVars>>

(***************************************************************************)
(* The screens                                                             *)
(***************************************************************************)

vars == <<screen, calcVars, markVars, angleVars, videoVars>>

Init ==
  /\ CalcInit
  /\ MarkInit
  /\ AngleInit
  /\ tool = "reflect"
  /\ VideoInit
  /\ \/ screen = "calculator" /\ knownMeters = "0" /\ skewDeg = "0"
     \/ screen = "marking" /\ variant = "fixedKx" /\ missing = {}

Next ==
  \/ \E videoEls \in VideoMarkups : Load(videoEls)
  \/ \E f \in {"distance", "time", "angle", "kx"} :
       \E text \in InputsOf(f) : Type(f, text)
  \/ BtnCalcClick
  \/ EnterKey
  \/ BtnClearClick
  \/ \E hasFile \in BOOLEAN : FileChange(hasFile)
  \/ LoadedMetadata
  \/ \E t \in Times : Seek(t)
  \/ BtnCalibrate
  \/ BtnResetCalib
  \/ BtnMarkA
  \/ BtnMarkB
  \/ BtnResetAB
  \/ \E ev \in Clicks : OverlayClick(ev)
  \/ \E text \in KnownInputs : InputKnown(text)
  \/ \E text \in SkewInputs : InputSkew(text)

Spec == Init /\ [][Next]_vars

\* The angle tool alone, in the two forms of src/unnamed.
AngleSpecInit ==
  /\ screen = "angle"
  /\ CalcInit
  /\ variant = "fixedKx"
  /\ missing = {}
  /\ MarkInit
  /\ knownMeters = "0"
  /\ skewDeg = "0"
  /\ AngleInit
  /\ tool # "polar"
  /\ VideoInit

AngleNext ==
  \/ \E mouse \in MousePositions : MouseDown(mouse)
  \/ \E mouse \in MousePositions : MouseMove(mouse)
  \/ MouseUp
  \/ BtnFlipAngle
  \/ BtnUseAngle

AngleSpec == AngleSpecInit /\ [][AngleNext]_vars

\* The rig of the two forms that flip, under drags and flips.
RigSpecInit ==
  /\ screen = "angle"
  /\ CalcInit
  /\ variant = "fixedKx"
  /\ missing = {}
  /\ MarkInit
  /\ knownMeters = "0"
  /\ skewDeg = "0"
  /\ AngleInit
  /\ tool # "free"
  /\ VideoInit

RigNext ==
  \/ \E mouse \in MousePositions : MouseDown(mouse)
  \/ \E mouse \in MousePositions : MouseMove(mouse)
  \/ MouseUp
  \/ BtnFlipAngle

RigSpec == RigSpecInit /\ [][RigNext]_vars

\* The freeze of the video under the rig.
FreezeSpecInit == AngleSpecInit /\ tool = "reflect"

FreezeNext ==
  \/ \E src \in {"none", "clip1", "clip2"} : SyncVideo(src)
  \/ BtnFreezeVideo
  \/ \E by \in {0 - 1, 1} : BtnFrame(by)
  \/ CaptureTimer
  \/ BtnUnfreezeVideo
  \/ AngleTimeUpdate

FreezeSpec == FreezeSpecInit /\ [][FreezeNext]_vars

\* The video analysis alone.
VideoSpecInit ==
  /\ screen = "video"
  /\ CalcInit
  /\ missing = {}
  /\ MarkInit
  /\ knownMeters = "0"
  /\ skewDeg = "0"
  /\ AngleInit
  /\ tool = "reflect"
  /\ VideoInit

VideoNext ==
  \/ \E file \in Files : Upload(file)
  \/ MetadataLoaded
  \/ PlayPause
  \/ \E t \in PlayTimes : TimeUpdate(t)
  \/ CloseVideo
  \/ \E v \in SliderInputs : StartSliderInput(v)
  \/ \E v \in SliderInputs : EndSliderInput(v)
  \/ \E which \in {"startTime", "endTime"} : BtnSetMarker(which)
  \/ BtnUseTime

VideoSpec == VideoSpecInit /\ [][VideoNext]_vars

\* The two sliders of the video analysis under slider inputs and key steps.
SliderSpecInit == VideoSpecInit /\ Sliders

SliderNext ==
  \/ \E file \in Files : Upload(file)
  \/ MetadataLoaded
  \/ \E v \in SliderInputs : StartSliderInput(v)
  \/ \E v \in SliderInputs : EndSliderInput(v)
  \/ \E which \in {"startTime", "endTime"} :
       \E key \in {"ArrowLeft", "ArrowRight"} :
         \E whole \in BOOLEAN : KeyDown(which, key, whole)

SliderSpec == SliderSpecInit /\ [][SliderNext]_vars


(***************************************************************************)
(* Properties of the calculator screen                                     *)
(***************************************************************************)

\* The numbers a Calculate attempt reads from the fields.
xNow == NumberOf(fields.distance)
tNow == NumberOf(fields.time)
thetaNow == NumberOf(fields.angle)
kxNow == IF variant = "kxInput" THEN NumberOf(fields.kx) ELSE defaultKx(variant)

\* The numerator and the denominator of the formula on those numbers.
numNow == Sub(MathExp(Mul(kxNow, xNow)), One)
denNow == Mul(Mul(kxNow, tNow), MathCos(RadOf(OrZero(thetaNow))))

\* The state is the one a Calculate attempt on the current fields left.
Attempted == screen = "calculator" /\ lastEv = "calc"

\* The attempt was rejected with message msg / was accepted.
Rejected(msg) == ~errHidden /\ errText = msg /\ resHidden
Accepted == errHidden /\ errText = NoMsg /\ ~resHidden

\* lo <= a <= hi
Near(a, lo, hi) == Leq(lo, a) /\ Leq(a, hi)

C2_Original == (Attempted /\ Leq(tNow, Zero)) => (Rejected(MsgTime) /\ ~called)

\* C2: an attempt with t <= 0 and finite other inputs is rejected with the
\* time message, the results hidden, and calculateV0 is not evaluated.
C2_TimeRejected ==
  (Attempted /\ Leq(tNow, Zero) /\ IsFinite(xNow) /\ IsFinite(thetaNow)
     /\ IsFinite(kxNow))
  => (Rejected(MsgTime) /\ ~called)

C2_Witness ==
  /\ Attempted
  /\ fields.time = "0"
  /\ fields.distance = "14150"
  /\ fields.angle = "90"
  /\ errText = MsgTime

\* C3 as stated: an attempt with t = 1 and k = 0 is rejected with the
\* non-zero-kx message for every distance and angle.
C3_Original ==
  (Attempted /\ variant = "kxInput" /\ NumEq(tNow, One) /\ NumEq(kxNow, Zero))
  => (Rejected(MsgKx) /\ ~called)

\* C3: an attempt with t = 1, k = 0 and finite distance and angle is rejected
\* with the non-zero-kx message; the results stay hidden and calculateV0 is
\* not evaluated.
C3_KxRejected ==
  (Attempted /\ variant = "kxInput" /\ NumEq(tNow, One) /\ NumEq(kxNow, Zero)
     /\ IsFinite(xNow) /\ IsFinite(thetaNow))
  => (Rejected(MsgKx) /\ ~called)

C3_Witness ==
  /\ Attempted
  /\ variant = "kxInput"
  /\ fields.time = "1"
  /\ fields.kx = "0"
  /\ fields.distance = "20000"
  /\ errText = MsgKx

\* C4: an attempt with an input that is not a finite number is rejected with
\* the invalid-input message, the results hidden and calculateV0 not
\* evaluated, also when t <= 0 or k = 0.
C4_InvalidRejected ==
  (Attempted /\ ~(IsFinite(xNow) /\ IsFinite(tNow) /\ IsFinite(thetaNow)
                  /\ IsFinite(kxNow)))
  => (Rejected(MsgInvalid) /\ ~called)

\* A non-numeric distance together with t = 0 and k = 0.
C4_Witness ==
  /\ Attempted
  /\ variant = "kxInput"
  /\ fields.distance = "abc"
  /\ fields.time = "0"
  /\ fields.kx = "0"
  /\ errText = MsgInvalid

\* C5 as stated: whenever calculateV0 meets a denominator below 1e-12 in
\* absolute value the attempt is rejected with the denominator message.
C5_Original ==
  (Attempted /\ called /\ Lt(Abs(denNow), DenominatorMin))
  => Rejected(MsgDenominator)

\* C5: whenever calculateV0 meets a finite numerator and a denominator below
\* 1e-12 in absolute value, the attempt is rejected with the denominator
\* message and no speed is shown.
C5_DenominatorRejected ==
  (Attempted /\ called /\ IsFinite(numNow) /\ Lt(Abs(denNow), DenominatorMin))
  => Rejected(MsgDenominator)

C5_Witness ==
  /\ Attempted
  /\ variant = "kxInput"
  /\ fields = [distance |-> "10", time |-> "1", angle |-> "90", kx |-> "0.05"]
  /\ called
  /\ errText = MsgDenominator

\* C6: for positive x and t, an angle strictly between -90 and 90 degrees and
\* k # 0, every accepted attempt yields a finite speed, positive when k > 0.
C6_FiniteSpeed ==
  (Attempted /\ called /\ Accepted /\ Lt(Zero, xNow) /\ Lt(Zero, tNow)
     /\ Lt(Abs(thetaNow), Dec(1, 90, 0)) /\ ~IsZero(kxNow))
  => (IsFinite(speeds.v0) /\ (Lt(Zero, kxNow) => Lt(Zero, speeds.v0)))

\* The fields of the example x = 10, t = 2, theta = 0, k = 0.05.
Example == [distance |-> "10", time |-> "2", angle |-> "0", kx |-> "0.05"]

\* speed = (exp(k x) - 1) / (k t cos(theta)), theta in radians.
SpeedFormula == Accepted => speeds.v0 = Div(numNow, denNow)

\* C7 as stated: the example yields numerator 0.64872, denominator 0.1,
\* 6.4872 m/s, 23.354 km/h and 14.508 mph.
C7_Original ==
  (Attempted /\ variant = "kxInput" /\ fields = Example)
  => /\ Accepted
     /\ Near(numNow, Dec(1, 648715, 0 - 6), Dec(1, 648725, 0 - 6))
     /\ denNow = Dec(1, 1, 0 - 1)
     /\ Near(speeds.v0, Dec(1, 648715, 0 - 5), Dec(1, 648725, 0 - 5))
     /\ Near(speeds.v_kmh, Dec(1, 233535, 0 - 4), Dec(1, 233545, 0 - 4))
     /\ Near(speeds.v_mph, Dec(1, 145075, 0 - 4), Dec(1, 145085, 0 - 4))

\* C7: an accepted attempt yields (exp(k x) - 1) / (k t cos(theta)) with theta
\* in radians; the example yields numerator 0.64872, denominator 0.1,
\* 6.4872 m/s, 23.354 km/h and 14.511 mph.
C7_Speed ==
  Attempted
  => /\ SpeedFormula
     /\ (variant = "kxInput" /\ fields = Example)
        => /\ Accepted
           /\ Near(numNow, Dec(1, 648715, 0 - 6), Dec(1, 648725, 0 - 6))
           /\ denNow = Dec(1, 1, 0 - 1)
           /\ Near(speeds.v0, Dec(1, 648715, 0 - 5), Dec(1, 648725, 0 - 5))
           /\ Near(speeds.v_kmh, Dec(1, 233535, 0 - 4), Dec(1, 233545, 0 - 4))
           /\ Near(speeds.v_mph, Dec(1, 145105, 0 - 4), Dec(1, 145115, 0 - 4))

C7_Witness ==
  /\ Attempted
  /\ variant = "kxInput"
  /\ fields = Example
  /\ ~resHidden
  /\ out.mps = [txt |-> "num", s |-> 1, m |-> 6487, e |-> 0 - 3]

\* C8: whenever a speed v is produced, by the Calculate handler or by
\* compute(), its conversions are v * 3.6 and v * 2.236936, and the texts
\* written with it are those of this v and these conversions.
C8_Conversions ==
  /\ speeds.set
     => /\ speeds.v_kmh = Mul(speeds.v0, KmhFactor)
        /\ speeds.v_mph = Mul(speeds.v0, MphFactor)
        /\ out.mps = fmt(speeds.v0, 3)
        /\ out.kmh = fmt(speeds.v_kmh, 2)
        /\ out.mph = fmt(speeds.v_mph, 2)
  /\ info.speed_mps # Null
     => /\ info.speed_kmh = Mul(info.speed_mps, KmhFactor)
        /\ info.speed_mph = Mul(info.speed_mps, MphFactor)
        /\ results.txt = "Speed"
        /\ results.mps = fmt(info.speed_mps, 3)
        /\ results.kmh = fmt(info.speed_kmh, 2)
        /\ results.mph = fmt(info.speed_mph, 2)

\* compute() has produced a speed under a skew angle of 5 degrees.
C8_Witness ==
  /\ screen = "marking"
  /\ info.speed_mps # Null
  /\ Lt(Zero, info.speed_mps)
  /\ skewDeg = "5"
  /\ results.txt = "Speed"

\* C9: a Calculate attempt ends either with the error box visible, holding
\* the message this attempt produced, and the results hidden, or with the
\* results visible and the error box empty and hidden.
C9_OneOutcome ==
  Attempted
  => \/ /\ Outcomes[variant][fields].error # NoMsg
        /\ Rejected(Outcomes[variant][fields].error)
     \/ /\ Outcomes[variant][fields].error = NoMsg
        /\ Accepted

\* An attempt was accepted.
C9_Witness == Attempted /\ Accepted /\ speeds.set /\ called

\* C10, the report: with a required element missing, once the page is loaded
\* no handler is registered and the failure has been reported once, in the
\* error box when there is one and by alert otherwise.
C10_Reported ==
  (missing # {} /\ loaded)
  => /\ ~handlers
     /\ IF "errorBox" \in missing
          THEN alerts = 1
          ELSE alerts = 0 /\ ~errHidden /\ errText = MsgMissing(missing)

\* C10, the effect: no later event changes the error or results state.
C10_NoEffect ==
  [][(missing # {} /\ loaded)
     => UNCHANGED <<handlers, errHidden, errText, resHidden, out, alerts>>]_vars

\* C10: a missing required element is reported once, initialisation stops, no
\* Calculate / Reset / Enter handler is registered, and no later user action
\* changes the error or results state.
C10_MissingElement == []C10_Reported /\ C10_NoEffect

\* A click was ignored on a page that reported a missing element in its error
\* box.
C10_Witness ==
  /\ missing # {}
  /\ "errorBox" \notin missing
  /\ lastEv = "ignored"
  /\ ~errHidden

(***************************************************************************)
(* Properties of the calibration / marking screen                          *)
(***************************************************************************)

\* The mark a click at ev records: its position brought into the overlay and
\* the playback position.
MarkAt(ev) == [nx |-> Clamp01(ev.x), ny |-> Clamp01(ev.y), t |-> currentTime]

\* What a click on the overlay does to the marks, by mode.
ClickMarks(ev) ==
  CASE mode = "markA" ->
         /\ A' = MarkAt(ev)
         /\ mode' = "idle"
         /\ B' = B
         /\ calib'.p1 = calib.p1 /\ calib'.p2 = calib.p2
    [] mode = "markB" ->
         /\ B' = MarkAt(ev)
         /\ mode' = "idle"
         /\ A' = A
         /\ calib'.p1 = calib.p1 /\ calib'.p2 = calib.p2
    [] mode = "idle" ->
         /\ UNCHANGED <<mode, A, B>>
         /\ calib'.p1 = calib.p1 /\ calib'.p2 = calib.p2
    [] OTHER -> TRUE

\* C11: Mark A (Mark B) moves the mode to markA (markB); the next click on
\* the overlay in that mode records exactly that mark, the clicked position
\* normalised into the overlay together with the video's current time, and
\* returns the mode to idle; a click in idle mode changes none of the mode,
\* the calibration points, A or B.
C11_ModeMachine ==
  [][/\ BtnMarkA => mode' = "markA"
     /\ BtnMarkB => mode' = "markB"
     /\ \A ev \in Clicks : OverlayClick(ev) => ClickMarks(ev)]_vars

\* Mark A was recorded at playback position 0.5 by a click outside the
\* overlay, after B had been marked.
C11_Witness ==
  /\ screen = "marking"
  /\ mode = "idle"
  /\ status = "Marked A."
  /\ B # Null
  /\ A = [nx |-> One, ny |-> One, t |-> Dec(1, 5, 0 - 1)]

\* The known length the field holds, and the distance in intrinsic pixels
\* between the two calibration points on the video as it is now.
knownNow == NumberOf(knownMeters)
pxNow == pxDistBetween(calib.p1, calib.p2)
BothPoints == calib.p1 # Null /\ calib.p2 # Null

\* C12: on the marking screen calib.metersPerPixel is non-null only if both
\* calibration points are set and the known length entered is > 0.
C12_FactorDefined ==
  (screen = "marking" /\ calib.metersPerPixel # Null)
  => (BothPoints /\ Lt(Zero, knownNow))

\* A factor had been computed, then the known length was edited to 0.
C12_Witness ==
  /\ screen = "marking"
  /\ BothPoints
  /\ knownMeters = "0"
  /\ calib.pxDist # Null
  /\ calib.metersPerPixel = Null

\* C13: whenever both calibration points are set, the known length is > 0
\* and the pixel distance between the points is > 0, calib.metersPerPixel is
\* the known length divided by that distance, on the current known length,
\* points and intrinsic video size.
C13_FactorCurrent ==
  (screen = "marking" /\ BothPoints /\ Lt(Zero, knownNow) /\ Lt(Zero, pxNow))
  => calib.metersPerPixel = Div(knownNow, pxNow)

\* C14: compute() is idempotent: evaluated twice in a row on unchanged
\* inputs it leaves calib, the readouts, the results and the returned info as
\* one evaluation does.
C14_Idempotent == screen = "marking" => compute(compute(Marks)) = compute(Marks)

\* compute() has produced a factor and a speed, and evaluating it again
\* changes nothing.
C14_Witness ==
  /\ screen = "marking"
  /\ Truthy(calib.metersPerPixel)
  /\ info.speed_mps # Null
  /\ skewDeg = "5"
  /\ compute(Marks) = Marks

\* C15: selecting a video file and Reset calibration leave the calibration
\* all-null (p1, p2, metersPerPixel, pxDist) in every mode; selecting a file
\* also clears the marks A and B.
C15_Reset ==
  [][/\ FileChange(TRUE) => (calib' = NoCalib /\ A' = Null /\ B' = Null)
     /\ BtnResetCalib => calib' = NoCalib]_vars

\* A file was selected between the two calibration clicks, after a speed had
\* been shown.
C15_Witness ==
  /\ screen = "marking"
  /\ video = "loading"
  /\ mode = "calib2"
  /\ results # Markup
  /\ calib = NoCalib
  /\ A = Null
  /\ B = Null

\* A speed in what compute() returns on state s.
HasSpeed(r) == r.info.speed_mps # Null
SpeedGuard(r) ==
  /\ r.A # Null
  /\ r.B # Null
  /\ Truthy(r.calib.metersPerPixel)
  /\ Lt(Zero, Abs(Sub(r.A.t, r.B.t)))
  /\ IsFinite(r.info.speed_mps)
SameTime(r) == r.A # Null /\ r.B # Null /\ NumEq(r.A.t, r.B.t)

\* C17: compute() returns a speed only when A and B are set, the calibration
\* factor is defined and the elapsed time |A.t - B.t| is > 0; with A and B at
\* the same timestamp it returns no speed and divides by nothing.
C17_SpeedGuard ==
  screen = "marking"
  => /\ HasSpeed(compute(Marks)) => SpeedGuard(compute(Marks))
     /\ SameTime(compute(Marks)) => compute(Marks).info = NoInfo

\* B was marked at the timestamp of A, with a calibration factor set.
C17_Witness ==
  /\ screen = "marking"
  /\ status = "Marked B."
  /\ SameTime(Marks)
  /\ Truthy(calib.metersPerPixel)
  /\ info = NoInfo

\* C22: a file selection that carries no file, or a file that is not a
\* video, leaves the video source, the calibration and the marks A and B of
\* the marking screen as they were.
C22_NonVideoIgnored ==
  [][\A file \in Files :
       (~IsVideo(file) /\ FileChange(file # "none"))
       => UNCHANGED <<video, calib, A, B>>]_vars

\* The speed of the linear-with-skew model on state r: pixel distance of the
\* marks on the intrinsic size, times the factor, over the elapsed time, over
\* the cosine of the skew angle.
SkewSpeed(r) ==
  Div(Div(Mul(pxDistBetween(r.A, r.B), r.calib.metersPerPixel),
          Abs(Sub(r.A.t, r.B.t))),
      MathCos(RadOf(NumberOf(r.skewDeg))))
PlainSpeed(r) == Div(r.info.distance_m, r.info.dt_s)

\* C24: the speed compute() returns is (pixelDistance(A, B) * metersPerPixel
\* / |A.t - B.t|) / cos(skew angle in radians); with skew angle 0 it is
\* distance / time.
C24_SkewSpeed ==
  (screen = "marking" /\ HasSpeed(compute(Marks)))
  => /\ compute(Marks).info.speed_mps = SkewSpeed(compute(Marks))
     /\ NumberOf(skewDeg) = Zero
        => compute(Marks).info.speed_mps = PlainSpeed(compute(Marks))

\* A speed was computed with a skew angle of 5 degrees: it is larger than
\* distance / time.
C24_Witness ==
  /\ screen = "marking"
  /\ skewDeg = "5"
  /\ HasSpeed(Marks)
  /\ info.speed_mps = SkewSpeed(Marks)
  /\ Lt(PlainSpeed(Marks), info.speed_mps)

\* C27: calibration point p2 is set only if calibration point p1 is set.
C27_PointOrder ==
  screen = "marking" => (calib.p2 # Null => calib.p1 # Null)

\* C28: whenever the results area shows a speed, it is the speed compute()
\* gives on the current calibration, marks and skew angle; no speed computed
\* earlier remains displayed.
C28_ResultsCurrent ==
  (screen = "marking" /\ results # Markup)
  => (HasSpeed(compute(Marks)) /\ results = compute(Marks).results)

(***************************************************************************)
(* Properties of the angle tool                                            *)
(***************************************************************************)

\* A segment of the rig has length 0: the ends of the baseline coincide, or
\* the free end lies on the vertex.
ZeroLength(r) ==
  \/ r.baseLineStart = r.baseLineEnd
  \/ r.angleLineEnd = r.baseLineEnd

\* Every coordinate of the rig is a number.
Numeric(r) == r.angleLineEnd # NaNPoint

\* C18: for every rig reached by dragging and flipping the reported angle is
\* a number of the closed interval [0, 90].
C18_AngleRange ==
  screen = "angle" => (Leq(Zero, currentAngle) /\ Leq(currentAngle, Ninety))

\* C19: when a segment of the rig has length 0 the reported angle is a number,
\* and neither the display nor the calculator's angle field holds NaN.
C19_NoNaN ==
  screen = "angle"
  => /\ ZeroLength(rig) => (~IsNaN(currentAngle) /\ angleValue # NaNText)
     /\ inputAngle # NaNText

\* C20: a flip of a rig with no segment of length 0 leaves the reported
\* angle, as displayed with one decimal, as it was.
C20_FlipKeepsAngle ==
  [][(BtnFlipAngle /\ Numeric(rig) /\ ~ZeroLength(rig))
     => angleText(currentAngle') = angleText(currentAngle)]_vars

\* Flip acts on the angle a within the bounds of the model.
Flippable(t, a) == t = "polar" => a \in DOMAIN TurnTable

\* The rig after one click on Flip, and after two in a row.
flippedOnce == flip(tool, rig, currentAngle, ~isFlipped)
flippedTwice ==
  flip(tool, flippedOnce, calculateAngle(tool, flippedOnce), isFlipped)

\* C21: two clicks on Flip in a row, with no drag in between, restore the
\* angle the tool reports, for every rig with no segment of length 0.
C21_FlipTwice ==
  (/\ screen = "angle"
   /\ tool # "free"
   /\ Numeric(rig)
   /\ ~ZeroLength(rig)
   /\ Flippable(tool, currentAngle)
   /\ Flippable(tool, calculateAngle(tool, flippedOnce)))
  => angleText(calculateAngle(tool, flippedTwice)) = angleText(currentAngle)

\* The rig of app.js after two clicks on Flip from its first position: the
\* free end has been placed twice and the angle reads 45.0 again.
C21_Witness ==
  /\ screen = "angle"
  /\ tool = "polar"
  /\ ~isFlipped
  /\ IsPlaced(angleLineEnd)
  /\ baseLineStart = InitialRig(tool).baseLineStart
  /\ baseLineEnd = InitialRig(tool).baseLineEnd
  /\ angleText(currentAngle) = angleText(Dec(1, 45, 0))
  /\ Flippable(tool, currentAngle)
  /\ Flippable(tool, calculateAngle(tool, flippedOnce))
  /\ flippedTwice = rig

\* C25: after every handler that moves a point of the rig the angle stored
\* and displayed is the angle calculated from the three points as they are,
\* and Use Angle transfers that angle.
C25_AngleCurrent ==
  /\ [](screen = "angle" => currentAngle = calculateAngle(tool, rig))
  /\ [][BtnUseAngle
         => (inputAngle' = inputAngle
             \/ inputAngle' = angleText(calculateAngle(tool, rig)))]_vars

\* The rig was dragged and flipped, and Use Angle has transferred the angle
\* of the rig as it is now.
C25_Witness ==
  /\ screen = "angle"
  /\ tool = "reflect"
  /\ isFlipped
  /\ rig # flipped(InitialRig(tool))
  /\ currentAngle # calculateAngle(tool, InitialRig(tool))
  /\ inputAngle = angleText(calculateAngle(tool, rig))

\* C30: while the free end is dragged, a pointer position at or below the
\* baseline is taken over unchanged.
C30_DragAccepted ==
  [][\A mouse \in MousePositions :
       (MouseMove(mouse) /\ dragging = "angleEnd"
        /\ mouse.y >= baseLineStart.y)
       => angleLineEnd' = mouse]_vars

\* C29: once Unfreeze is clicked the frozen frame stays null, no captured
\* frame is stored or drawn, until the next Freeze click, however the clicks
\* on the frame buttons interleave with their deferred captures.  Unfreeze
\* hides its own button and Freeze shows it again.
C29_UnfrozenStaysNull ==
  (screen = "angle" /\ angleVideo.unfreezeHidden)
    => angleVideo.frozenFrame = Null

(***************************************************************************)
(* Properties of the video analysis                                        *)
(***************************************************************************)

\* A file has been selected and its metadata has not arrived: whatever the
\* markers hold stems from an earlier video.
NewFilePending == playerSrc # "none" /\ ~playerReady

\* C16: once a new video file is selected the markers of the previous video
\* are reset, so that Use This Time transfers nothing to the calculator's
\* time field before the new video has been analysed.
C16_NoStaleTransfer ==
  [][(BtnUseTime /\ NewFilePending) => inputTime' = inputTime]_vars

\* C23: the object URL of an uploaded video is released when another file
\* replaces it and when the video view is closed, so after any uploads and
\* closes at most one created URL is unreleased.
C23_UrlReleased == objectUrls <= 1

\* C26: after any sequence of start-slider inputs, end-slider inputs and
\* arrow-key frame steps on a loaded video the start slider is not past the
\* end slider, hence startTime <= endTime.
C26_SliderOrder ==
  (screen = "video" /\ Sliders /\ Lt(Zero, videoDuration))
    => (Leq(startSlider, endSlider) /\ Leq(startTime, endTime))

====
